---- MODULE Spec2Model ----
(***************************************************************************)
(* CodeAct card-check pipeline: the batch-optimized claim verifier         *)
(* (tools/codeact_verifier.py), its execution sandbox and the XML claim    *)
(* cache (tools/xml_cache.py), modelled as state machines.                 *)
(*                                                                         *)
(* Abstractions used throughout:                                           *)
(*  - a claim is the record [id |-> i];                                    *)
(*  - an exception message is the set of lower-case substrings the code    *)
(*    tests for (ErrText);                                                 *)
(*  - an LLM reply is a wire text [fence, body]: fence says whether the    *)
(*    text is wrapped in a ``` block, body is the JSON value it spells     *)
(*    (or "garbage" when it is not JSON);                                  *)
(*  - a generated program is a kind (ProgramText gives a concrete text);   *)
(*  - confidences are tenths (9 is 0.9).                                   *)
(***************************************************************************)
EXTENDS Integers, Sequences, FiniteSets, TLC

VARIABLES
    cfg,            \* [provider, model] of the CodeActVerifier
    mode,           \* "batch" (verify_claims_batch_optimized) or "single" (verify_claims_batch)
    claims,         \* the input claim list
    pc,             \* position of the run
    batch_idx,      \* loop variable of the code-generation / evaluation loops
    codes,          \* all_codes / codes
    evidences,      \* evidences
    evaluations,    \* all_evaluations / evaluations
    results,        \* results
    requests,       \* number of client.*.create requests sent so far
    terminal_error, \* an LLM call raised an AUTH/NOT_FOUND/funds/rate-limit error
    tick,           \* parity of the iterations of a non-terminating program
    call,           \* one call of a batch function: its arguments and the backend's answers
    ret,            \* what that call returned
    program,        \* python_code handed to _execute_verification_code
    execution,      \* what _execute_verification_code did with it
    fs,             \* the cache entry of one key on disk: <key>.xml and metadata/<key>.json
    writer,         \* the process calling save_cache
    reader,         \* the process calling has_cache / get_cache
    conv,           \* a claim list on its way through save_cache and get_cache
    store,          \* the cache directory: per card text, the entry file and its sidecar
    last_op,        \* the last XMLCache call made on the directory and what it returned
    env,            \* what an LLMClaimExtractor runs in: CLAIM_EXTRACT_MAX_WORKERS, the
                    \* workspace file model_card_claims.json, the LLM's answer per chunk
    caches,         \* per card text, the JSON mirror's latest file and the XML cache entry
    extraction,     \* the extract_claims call in progress
    returns,        \* the extract_claims calls that ended, oldest first
    sse,            \* one request on a streaming endpoint: its headers and body, what
                    \* the handler made of them and the events yielded so far
    applied         \* a function of the scoring code applied to an input, and its result

runVars == <<cfg, mode, claims, pc, batch_idx, codes, evidences, evaluations,
             results, requests, terminal_error, tick>>
callVars == <<call, ret>>
execVars == <<program, execution>>
cacheVars == <<fs, writer, reader>>
storeVars == <<conv, store, last_op>>
extVars == <<env, caches, extraction, returns>>
moreVars == <<sse, applied>>
restVars == <<storeVars, extVars, moreVars>>

vars == <<runVars, callVars, execVars, cacheVars, restVars>>

\* ---------------------------------------------------------------- bounds
MaxClaims == 6
MaxSingleClaims == 2
MaxExtra == 1
MaxBatch == 2

Min(a, b) == IF a < b THEN a ELSE b

\* ------------------------------------------------------- configuration
Models == {"claude-3-haiku", "claude-sonnet-4-5", "gpt-4o", "openai/gpt-4o",
           "openai/gpt-4o-mini"}

\* the substrings of model.lower() that the code tests for
ModelText(m) ==
    CASE m = "claude-3-haiku"     -> {"haiku"}
      [] m = "claude-sonnet-4-5"  -> {"sonnet-4", "claude-sonnet-4"}
      [] m = "openai/gpt-4o-mini" -> {"gpt-4o-mini"}
      [] OTHER                    -> {}

Configs == {[provider |-> "anthropic",  model |-> "claude-3-haiku"],
            [provider |-> "anthropic",  model |-> "claude-sonnet-4-5"],
            [provider |-> "openai",     model |-> "gpt-4o"],
            [provider |-> "openrouter", model |-> "openai/gpt-4o"],
            [provider |-> "openrouter", model |-> "openai/gpt-4o-mini"]}

get_max_tokens(c) ==
    IF c.provider = "anthropic"
    THEN IF "haiku" \in ModelText(c.model) THEN 4000
         ELSE IF "sonnet-4" \in ModelText(c.model)
                 \/ "claude-sonnet-4" \in ModelText(c.model) THEN 16000
         ELSE 8000
    ELSE 8000

get_batch_size_for_code_generation(c) ==
    IF get_max_tokens(c) >= 16000 THEN 20
    ELSE IF get_max_tokens(c) >= 8000 THEN 10
    ELSE 5

problematic_models == {"gpt-4o-mini", "gpt-3.5", "claude-haiku"}

should_skip_response_format(c) ==
    IF c.provider = "openrouter"
    THEN (problematic_models \cap ModelText(c.model)) # {}
    ELSE FALSE

\* ------------------------------------------------------------- errors
ErrKinds == {"AUTH", "AUTH_INVALID_KEY", "NOT_FOUND", "RATE_LIMIT",
             "INSUFFICIENT_FUNDS", "UNSUPPORTED_PARAM", "TIMEOUT"}

\* str(e).lower() of the backend's exception, as the substrings tested
ErrText(e) ==
    CASE e = "AUTH"               -> {"401", "unauthorized"}
      [] e = "AUTH_INVALID_KEY"   -> {"401", "invalid"}
      [] e = "NOT_FOUND"          -> {"404", "not found"}
      [] e = "RATE_LIMIT"         -> {"429", "rate limit"}
      [] e = "INSUFFICIENT_FUNDS" -> {"insufficient", "balance"}
      [] e = "UNSUPPORTED_PARAM"  -> {"response_format", "unsupported"}
      [] OTHER                    -> {}

TerminalErrKinds == {"AUTH", "AUTH_INVALID_KEY", "NOT_FOUND", "RATE_LIMIT",
                     "INSUFFICIENT_FUNDS"}

\* ------------------------------------------------------- LLM replies
NoBody == [t |-> "garbage", n |-> 0, elem |-> "none"]
NoWire == [fence |-> FALSE, body |-> NoBody]

ArrayBody(n, e) == [t |-> "array", n |-> n, elem |-> IF n = 0 THEN "none" ELSE e]
ObjectBody(n)   == [t |-> "object", n |-> n, elem |-> "none"]
TextBody(e)     == [t |-> "text", n |-> 0, elem |-> e]
\* the JSON texts 42, null, true
ScalarBody      == [t |-> "scalar", n |-> 0, elem |-> "none"]
\* a JSON string of n letters, as "ab"
StringBody(n)   == [t |-> "string", n |-> n, elem |-> "none"]

\* array elements of a code-generation reply: programs, or a non-string
ProgramKinds == {"found", "raises", "set", "loops"}
GenElems == ProgramKinds \cup {"nonstring"}

\* array elements of an evaluation reply
EvalElems == {"verified09", "notverified02", "emptydict", "nondict"}

\* ------------------------------------------------------- backend outcomes
\* what one client.*.create request does: a reply text, or an exception
Reply(w)  == [ok |-> TRUE,  wire |-> w,      err |-> "none"]
Failure(e) == [ok |-> FALSE, wire |-> NoWire, err |-> e]

Bodies(elems, maxn) ==
    {NoBody, ScalarBody}
    \cup {ArrayBody(n, e) : n \in 0..maxn, e \in elems}
    \cup {ObjectBody(n) : n \in 0..maxn}
    \cup {StringBody(n) : n \in 0..maxn}

Outcomes(elems, maxn) ==
    {Reply([fence |-> f, body |-> b]) : f \in BOOLEAN, b \in Bodies(elems, maxn)}
    \cup {Failure(e) : e \in ErrKinds}

\* whether the reply text contains a "{ ... }" span (regex r'\{.*\}')
ElemHasBraces(e) == e \in {"found", "set", "verified09", "notverified02", "emptydict"}

HasBraces(b) ==
    \/ b.t = "object"
    \/ b.t = "text" /\ ElemHasBraces(b.elem)
    \/ b.t = "array" /\ b.n > 0 /\ ElemHasBraces(b.elem)

\* number of keys of the JSON object an evaluation element spells
ElemKeys(e) == IF e = "emptydict" THEN 0 ELSE 4

\* the JSON object {"verified": ..., "confidence": ..., ...} of one evaluation
EvalObject(e) == [t |-> "object", n |-> ElemKeys(e), elem |-> e]

\* the text from the first "{" to the last "}" of a reply, as the value it spells
BraceSlice(b) ==
    IF b.t = "object" THEN b
    ELSE IF b.t = "array" /\ b.n = 1 /\ b.elem \in {"verified09", "notverified02", "emptydict"}
         THEN EvalObject(b.elem)
    ELSE NoBody

\* lines 191-202: JSON extraction applied on the request sent without response_format
ExtractJson(w) ==
    IF w.fence THEN [fence |-> FALSE, body |-> w.body]
    ELSE IF HasBraces(w.body) THEN [fence |-> FALSE, body |-> BraceSlice(w.body)]
    ELSE w

IsResponseFormatError(e) ==
    ({"response_format", "unsupported", "invalid"} \cap ErrText(e)) # {}

\* mutant of call_openai_api: the request without response_format is sent again
\* after the retry, so a call may send three requests
call_openai_api_resending(c, use_json_format, o1, o2) ==
    LET skip == IF use_json_format THEN should_skip_response_format(c) ELSE FALSE
        plain(o, sent) ==
            IF o.ok
            THEN [n |-> sent, ok |-> TRUE, err |-> "none",
                  wire |-> IF use_json_format THEN ExtractJson(o.wire) ELSE o.wire]
            ELSE [n |-> sent + 1, ok |-> FALSE, err |-> o.err, wire |-> NoWire]
    IN IF use_json_format /\ ~skip
       THEN IF o1.ok
            THEN [n |-> 1, ok |-> TRUE, err |-> "none", wire |-> o1.wire]
            ELSE IF IsResponseFormatError(o1.err)
                 THEN plain(o2, 2)
                 ELSE [n |-> 1, ok |-> FALSE, err |-> o1.err, wire |-> NoWire]
       ELSE plain(o1, 1)

\* _call_openai_api(messages, use_json_format) against a backend that answers the
\* first request with o1 and the second (if one is sent) with o2.
\* Result: the number of requests sent, and the returned text or the raised error.
call_openai_api(c, use_json_format, o1, o2) ==
    LET skip == IF use_json_format THEN should_skip_response_format(c) ELSE FALSE
        plain(o, sent) ==
            IF o.ok
            THEN [n |-> sent, ok |-> TRUE, err |-> "none",
                  wire |-> IF use_json_format THEN ExtractJson(o.wire) ELSE o.wire]
            ELSE [n |-> sent, ok |-> FALSE, err |-> o.err, wire |-> NoWire]
    IN IF use_json_format /\ ~skip
       THEN IF o1.ok
            THEN [n |-> 1, ok |-> TRUE, err |-> "none", wire |-> o1.wire]
            ELSE IF IsResponseFormatError(o1.err)
                 THEN plain(o2, 2)
                 ELSE [n |-> 1, ok |-> FALSE, err |-> o1.err, wire |-> NoWire]
       ELSE plain(o1, 1)

\* client.messages.create of the Anthropic branch: one request
call_anthropic_api(o1) ==
    [n |-> 1, ok |-> o1.ok, err |-> o1.err, wire |-> o1.wire]

\* the provider switch at the head of each LLM step
call_llm(c, use_json_format, o1, o2) ==
    IF c.provider \in {"openai", "openrouter"}
    THEN call_openai_api(c, use_json_format, o1, o2)
    ELSE call_anthropic_api(o1)

\* ------------------------------------------------------- the sandbox
\* Values a program can leave in `result` (or that a run substitutes for it):
\*   "dict_found"     {'found': True,  'evidence_count': 1, ...}
\*   "dict_notfound"  {'found': False, 'evidence_count': 0, ...}
\*   "dict_set"       {'found': True, 'files': {1, 2}}   (not JSON serializable)
\*   "empty_dict"     {}
\*   "list"           [1]
\*   "none"           None
Values == {"dict_found", "dict_notfound", "dict_set", "empty_dict", "list", "none"}

IsDict(v) == v \in {"dict_found", "dict_notfound", "dict_set", "empty_dict"}
\* evidence.get("found", False) of a dict
GetFound(v) == v \in {"dict_found", "dict_set"}
\* bool(evidence)
Truthy(v) == v \in {"dict_found", "dict_notfound", "dict_set", "list"}
\* whether json.dumps accepts the value
JsonSerializable(v) == v # "dict_set"

\* the keys of the curated builtins table (lines 399-422)
safe_builtins ==
    {"str", "int", "float", "bool", "list", "dict", "set", "tuple",
     "isinstance", "issubclass", "type", "hasattr", "getattr",
     "len", "range", "enumerate", "zip", "map", "filter",
     "any", "all", "sum", "min", "max", "sorted", "reversed",
     "ord", "chr", "repr", "format", "abs", "round", "pow", "print",
     "Exception", "ValueError", "KeyError", "TypeError", "AttributeError",
     "IndexError", "True", "False", "None"}

\* the names the sandbox dict binds besides __builtins__ (lines 429-435)
sandbox_names == {"code_search", "notebook_search", "artifact_search", "result"}

tool_names == {"code_search", "notebook_search", "artifact_search"}

\* what a bound tool instance gives access to through its attributes
\* (<tool>.__init__.__globals__): the globals of tools/search_tools.py, which
\* hold the modules it imports (lines 3-7) and the interpreter's own builtins
tool_globals == {"subprocess", "json", "re", "Path", "__builtins__"}
host_builtins == safe_builtins \cup {"open", "__import__", "eval", "exec", "compile"}

\* <tool>.__init__.__globals__[target], or ...['__builtins__'][target]
Reachable(name, target) ==
    name \in tool_names /\ (target \in tool_globals \/ target \in host_builtins)

\* name resolution inside exec(python_code, sandbox, sandbox)
Bound(name) == name \in sandbox_names \/ name \in safe_builtins

\* Statements of a generated program:
\*   assign      result = <val>
\*   call        <name>(...)            (for a tool: <name>.text_search(...))
\*   import      import os
\*   try_call    try: <name>(...)  except Exception: result = <val>
\*   try_import  try: import os    except Exception: result = <val>
\*   loop        while True: pass
\*   reach       <name>.__init__.__globals__[...]: the call of open or of
\*               __import__ found there, or subprocess.run of the module found there
Stmt(op, name, val) == [op |-> op, name |-> name, val |-> val]

\* the namespace and effects while a program runs
StartRun == [status |-> "running", result |-> "none", error |-> "none",
             host_reads |-> 0, tool_calls |-> 0, modules |-> 0, processes |-> 0]

\* one statement executed in run state r
Step(r, st) ==
    LET nameError == st.op \in {"call", "try_call", "reach"} /\ ~Bound(st.name)
        keyError == st.op = "reach" /\ ~Reachable(st.name, st.val)
        importError == st.op \in {"import", "try_import"} /\ ~Bound("__import__")
        effects ==
            [r EXCEPT !.host_reads = IF st.op \in {"call", "try_call"} /\ st.name = "open"
                                        /\ Bound("open") THEN @ + 1 ELSE @,
                      !.tool_calls = IF st.op \in {"call", "try_call"}
                                        /\ st.name \in tool_names THEN @ + 1 ELSE @,
                      !.modules = IF st.op \in {"import", "try_import"}
                                     /\ Bound("__import__") THEN @ + 1 ELSE @]
    IN CASE st.op = "loop" -> [r EXCEPT !.status = "diverged"]
         [] st.op = "assign" -> [r EXCEPT !.result = st.val]
         [] st.op = "reach" ->
                IF nameError THEN [r EXCEPT !.status = "raised", !.error = "NameError"]
                ELSE IF keyError THEN [r EXCEPT !.status = "raised", !.error = "KeyError"]
                ELSE [r EXCEPT !.host_reads = IF st.val = "open" THEN @ + 1 ELSE @,
                               !.modules = IF st.val = "__import__" THEN @ + 1 ELSE @,
                               !.processes = IF st.val = "subprocess" THEN @ + 1 ELSE @]
         [] st.op \in {"call", "import"} ->
                IF nameError THEN [r EXCEPT !.status = "raised", !.error = "NameError"]
                ELSE IF importError THEN [r EXCEPT !.status = "raised", !.error = "ImportError"]
                ELSE effects
         [] OTHER ->  \* try_call, try_import: the handler catches Exception
                IF nameError \/ importError THEN [r EXCEPT !.result = st.val]
                ELSE effects

RECURSIVE RunFrom(_, _, _)
RunFrom(prog, i, r) ==
    IF i > Len(prog) \/ r.status # "running" THEN r
    ELSE RunFrom(prog, i + 1, Step(r, prog[i]))

\* _execute_verification_code(python_code); returns = FALSE when exec never returns
execute_verification_code(prog) ==
    LET r == RunFrom(prog, 1, StartRun)
    IN [returns |-> r.status # "diverged",
        success |-> r.status = "running",
        result |-> IF r.status = "running" THEN r.result ELSE "none",
        error |-> r.error,
        host_reads |-> r.host_reads,
        tool_calls |-> r.tool_calls,
        modules |-> r.modules,
        processes |-> r.processes]

\* execution_result.get("result", {})
ResultOrEmpty(x) == IF x.success THEN x.result ELSE "empty_dict"

\* the program texts the run model draws generated code from
FallbackProgram == <<Stmt("assign", "none", "dict_notfound")>>

ProgramText(kind) ==
    CASE kind = "found"    -> <<Stmt("call", "code_search", "none"),
                                Stmt("assign", "none", "dict_found")>>
      [] kind = "raises"   -> <<Stmt("call", "open", "none")>>
      [] kind = "key"      -> <<Stmt("call", "codes", "none")>>
      [] kind = "char"     -> <<Stmt("call", "a", "none")>>
      [] kind = "set"      -> <<Stmt("assign", "none", "dict_set")>>
      [] kind = "loops"    -> <<Stmt("loop", "none", "none")>>
      [] OTHER             -> FallbackProgram

\* ------------------------------------------------------- batch code generation
\* a generated code string: its program kind and the reply position it came
\* from (batch b, 1-based position pos); fallback programs carry <<0, 0>>
Code(kind, b, pos) == [kind |-> kind, batch |-> b, pos |-> pos]
FallbackCode == Code("fallback", 0, 0)

Repeat(x, n) == [i \in 1..n |-> x]

\* lines 645-676: strip the fence, json.loads, clean each code, pad when short
ParseCodes(w, n_claims, b) ==
    LET body == w.body
        fallback == [failed |-> TRUE, codes |-> Repeat(FallbackCode, n_claims)]
    IN CASE body.t = "garbage" -> fallback
         [] body.t = "scalar"  -> fallback
         [] body.t = "array" /\ body.n > 0 /\ body.elem = "nonstring" -> fallback
         [] OTHER ->
              \* iterating a dict gives its keys, iterating a str its characters
              LET kind == CASE body.t = "object" -> "key"
                            [] body.t = "string" -> "char"
                            [] OTHER -> body.elem
                  cleaned == [j \in 1..body.n |-> Code(kind, b, j)]
              IN [failed |-> FALSE,
                  codes |-> IF body.n < n_claims
                            THEN cleaned \o Repeat(FallbackCode, n_claims - body.n)
                            ELSE cleaned]

\* _generate_verification_code_batch(claims) for batch b of n_claims claims
generate_verification_code_batch(c, n_claims, b, o1, o2) ==
    LET r == call_llm(c, TRUE, o1, o2)
    IN IF r.ok
       THEN [codes |-> ParseCodes(r.wire, n_claims, b).codes,
             requests |-> r.n, err |-> "none"]
       ELSE [codes |-> Repeat(FallbackCode, n_claims),
             requests |-> r.n, err |-> r.err]

\* ------------------------------------------------------- batch evaluation
\* an evaluation entry: dict says whether it is a JSON object at all, has
\* whether it carries the keys; batch/pos as for Code
Evaluation(kind, b, pos) ==
    [kind |-> kind, batch |-> b, pos |-> pos,
     dict |-> kind \notin {"nondict", "str"},
     has |-> kind \in {"verified09", "notverified02", "pad", "heuristic_found",
                       "heuristic_notfound"},
     verified |-> kind \in {"verified09", "heuristic_found"},
     confidence |-> CASE kind = "verified09" -> 9
                      [] kind = "notverified02" -> 2
                      [] kind = "heuristic_found" -> 5
                      [] kind \in {"heuristic_notfound", "pad"} -> 1
                      [] OTHER -> 0]

\* mutant of HeuristicEvaluation: evidence that is not a dict counts as not found
HeuristicEvaluationDictOnly(evidence) ==
    Evaluation(IF IsDict(evidence) /\ GetFound(evidence)
               THEN "heuristic_found" ELSE "heuristic_notfound", 0, 0)

\* lines 797-807: the heuristic verdict of one evidence
HeuristicEvaluation(evidence) ==
    LET found == IF IsDict(evidence) THEN GetFound(evidence) ELSE Truthy(evidence)
    IN Evaluation(IF found THEN "heuristic_found" ELSE "heuristic_notfound", 0, 0)

HeuristicEvaluations(batch_evidences) ==
    [i \in 1..Len(batch_evidences) |-> HeuristicEvaluation(batch_evidences[i])]

\* lines 776-790: json.loads (no fence stripping), pad when short
ParseEvaluations(w, n_claims, batch_evidences, b) ==
    LET body == w.body
        fallback == [failed |-> TRUE, evals |-> HeuristicEvaluations(batch_evidences)]
    IN CASE w.fence -> fallback
         [] body.t = "garbage" -> fallback
         [] body.t = "scalar" -> fallback
         [] body.t \in {"object", "string"} /\ body.n < n_claims -> fallback
         [] body.t \in {"object", "string"} ->
              [failed |-> FALSE, evals |-> [j \in 1..body.n |-> Evaluation("str", b, j)]]
         [] OTHER ->
              LET given == [j \in 1..body.n |-> Evaluation(body.elem, b, j)]
              IN [failed |-> FALSE,
                  evals |-> IF body.n < n_claims
                            THEN given \o Repeat(Evaluation("pad", 0, 0), n_claims - body.n)
                            ELSE given]

\* _evaluate_execution_results_batch(claims, evidences, codes) for batch b.
\* raised: json.dumps(combined) at line 738 raised TypeError, outside the try.
evaluate_execution_results_batch(c, n_claims, batch_evidences, b, o1, o2) ==
    LET r == call_llm(c, TRUE, o1, o2)
    IN IF \E i \in 1..Len(batch_evidences) : ~JsonSerializable(batch_evidences[i])
       THEN [raised |-> TRUE, fallback |-> FALSE, evals |-> <<>>, requests |-> 0,
             err |-> "none"]
       ELSE IF r.ok
       THEN [raised |-> FALSE,
             fallback |-> ParseEvaluations(r.wire, n_claims, batch_evidences, b).failed,
             evals |-> ParseEvaluations(r.wire, n_claims, batch_evidences, b).evals,
             requests |-> r.n, err |-> "none"]
       ELSE [raised |-> FALSE, fallback |-> TRUE,
             evals |-> HeuristicEvaluations(batch_evidences),
             requests |-> r.n, err |-> r.err]

\* ------------------------------------------------------- the batch-optimized run
\* the state outside a verification run
NoCall == [fn |-> "none", cfg |-> [provider |-> "none", model |-> "none"], n |-> 0,
           evidences |-> <<>>, o1 |-> Failure("none"), o2 |-> Failure("none")]
NoRet == [done |-> FALSE, codes |-> <<>>, evals |-> <<>>, raised |-> FALSE,
          requests |-> 0, err |-> "none"]

CallIdle == call = NoCall /\ ret = NoRet

NoExecution == [done |-> FALSE, returns |-> FALSE, success |-> FALSE, result |-> "none",
                error |-> "none", host_reads |-> 0, tool_calls |-> 0, modules |-> 0,
                processes |-> 0]

ExecIdle == program = <<>> /\ execution = NoExecution

\* no file of the key on disk, no cache call in progress
NoFs == [xml |-> "missing", meta |-> "missing"]
NoWriter == [pc |-> "idle", val |-> "none", orphan |-> FALSE, saves |-> 0, last |-> "none"]
NoReader == [op |-> "none", pc |-> "idle", val |-> "none", expect |-> "any", epoch |-> 0,
             result |-> "none", reads |-> 0]

CacheIdle == fs = NoFs /\ writer = NoWriter /\ reader = NoReader

\* the cache directory as XMLCache.__init__ leaves it
CardTexts == {"", "card"}
NoEntry == [xml |-> "missing", meta |-> "missing"]
NoConv == [done |-> FALSE]
EmptyStore == [k \in CardTexts |-> NoEntry]
NoOp == [op |-> "none", key |-> "none", pre |-> EmptyStore, result |-> "none", raised |-> FALSE]

StoreIdle == conv = NoConv /\ store = EmptyStore /\ last_op = NoOp

\* no extractor constructed
NoEnv == [max_workers |-> 0]
NoCaches == <<>>
NoExtraction == [pc |-> "none"]

ExtIdle == env = NoEnv /\ caches = NoCaches /\ extraction = NoExtraction /\ returns = <<>>

NoStream == [gen |-> "none"]
NoApplied == [fn |-> "none"]
MoreIdle == sse = NoStream /\ applied = NoApplied

RestIdle == StoreIdle /\ ExtIdle /\ MoreIdle

RunFrame == UNCHANGED <<callVars, execVars, cacheVars, restVars>>

Claim(i) == [id |-> i]

total == Len(claims)
batch_size == get_batch_size_for_code_generation(cfg)
num_batches == (total + batch_size - 1) \div batch_size
start_idx == batch_idx * batch_size
end_idx == Min(start_idx + batch_size, total)

\* Python's seq[a:b] (0-based, end clipped to the length)
Slice(seq, a, b) == SubSeq(seq, a + 1, Min(b, Len(seq)))

\* whether _call_openai_api sends a second request after outcome o1
NeedsSecond(c, o1) ==
    /\ c.provider \in {"openai", "openrouter"}
    /\ ~should_skip_response_format(c)
    /\ ~o1.ok
    /\ IsResponseFormatError(o1.err)

SecondOutcomes(c, o1, all) == IF NeedsSecond(c, o1) THEN all ELSE {o1}

\* a verifier constructed for one of the configurations, about to verify a list
\* of at most max_batch claims (at most max_single on the per-claim path)
RunInit(max_batch, max_single) ==
    /\ cfg \in Configs
    /\ mode \in {"batch", "single"}
    /\ \E n \in 0..max_batch :
          /\ mode = "single" => n <= max_single
          /\ claims = [i \in 1..n |-> Claim(i)]
    /\ pc = "start"
    /\ batch_idx = 0
    /\ codes = <<>>
    /\ evidences = <<>>
    /\ evaluations = <<>>
    /\ results = <<>>
    /\ requests = 0
    /\ terminal_error = FALSE
    /\ tick = 0
    /\ CallIdle /\ ExecIdle /\ CacheIdle /\ RestIdle

\* lines 831-839
Start ==
    /\ RunFrame
    /\ pc = "start" /\ mode = "batch"
    /\ pc' = "gen"
    /\ batch_idx' = 0
    /\ UNCHANGED <<cfg, mode, claims, codes, evidences, evaluations, results,
                   requests, terminal_error, tick>>

\* lines 840-849: one iteration of the code-generation loop
GenerateBatch ==
    /\ RunFrame
    /\ pc = "gen" /\ batch_idx < num_batches
    /\ LET n == end_idx - start_idx
           all == Outcomes(GenElems, n + MaxExtra)
       IN \E o1 \in all : \E o2 \in SecondOutcomes(cfg, o1, all) :
            LET g == generate_verification_code_batch(cfg, n, batch_idx + 1, o1, o2)
            IN /\ codes' = codes \o g.codes
               /\ requests' = requests + g.requests
               /\ terminal_error' = (terminal_error \/ g.err \in TerminalErrKinds)
    /\ batch_idx' = batch_idx + 1
    /\ UNCHANGED <<cfg, mode, claims, pc, evidences, evaluations, results, tick>>

\* lines 851-860
GenerateDone ==
    /\ RunFrame
    /\ pc = "gen" /\ batch_idx = num_batches
    /\ pc' = "exec"
    /\ evidences' = <<>>
    /\ UNCHANGED <<cfg, mode, claims, batch_idx, codes, evaluations, results,
                   requests, terminal_error, tick>>

\* lines 861-866: one iteration of the execution loop over zip(claims, codes);
\* exec() of a program that never returns never hands control back
ExecuteNext ==
    /\ RunFrame
    /\ pc = "exec" /\ Len(evidences) < Min(total, Len(codes))
    /\ LET code == codes[Len(evidences) + 1]
           execution_result == execute_verification_code(ProgramText(code.kind))
       IN IF execution_result.returns
          THEN /\ evidences' = Append(evidences, ResultOrEmpty(execution_result))
               /\ pc' = pc
          ELSE /\ evidences' = evidences
               /\ pc' = "in_exec"
    /\ UNCHANGED <<cfg, mode, claims, batch_idx, codes, evaluations, results,
                   requests, terminal_error, tick>>

\* line 438: one more iteration of a generated program's endless loop
Spin ==
    /\ RunFrame
    /\ pc = "in_exec"
    /\ tick' = 1 - tick
    /\ UNCHANGED <<cfg, mode, claims, pc, batch_idx, codes, evidences, evaluations,
                   results, requests, terminal_error>>

\* lines 868-870
ExecuteDone ==
    /\ RunFrame
    /\ pc = "exec" /\ Len(evidences) = Min(total, Len(codes))
    /\ pc' = "eval"
    /\ batch_idx' = 0
    /\ evaluations' = <<>>
    /\ UNCHANGED <<cfg, mode, claims, codes, evidences, results, requests,
                   terminal_error, tick>>

\* lines 870-881: one iteration of the evaluation loop
EvaluateBatch ==
    /\ RunFrame
    /\ pc = "eval" /\ batch_idx < num_batches
    /\ LET n == end_idx - start_idx
           batch_evidences == Slice(evidences, start_idx, end_idx)
           all == Outcomes(EvalElems, n + MaxExtra)
       IN \E o1 \in all : \E o2 \in SecondOutcomes(cfg, o1, all) :
            LET e == evaluate_execution_results_batch(cfg, n, batch_evidences,
                                                      batch_idx + 1, o1, o2)
            IN IF e.raised
               THEN /\ pc' = "raised"
                    /\ UNCHANGED <<evaluations, requests, terminal_error, batch_idx>>
               ELSE /\ pc' = pc
                    /\ evaluations' = evaluations \o e.evals
                    /\ requests' = requests + e.requests
                    /\ terminal_error' = (terminal_error \/ e.err \in TerminalErrKinds)
                    /\ batch_idx' = batch_idx + 1
    /\ UNCHANGED <<cfg, mode, claims, codes, evidences, results, tick>>

\* line 883
EvaluateDone ==
    /\ RunFrame
    /\ pc = "eval" /\ batch_idx = num_batches
    /\ pc' = "combine"
    /\ UNCHANGED <<cfg, mode, claims, batch_idx, codes, evidences, evaluations,
                   results, requests, terminal_error, tick>>

Verdict(claim, verified, confidence, evidence, reasoning, code) ==
    [claim_id |-> claim.id, claim |-> claim, verified |-> verified,
     confidence |-> confidence, evidence |-> evidence, reasoning |-> reasoning,
     code |-> code]

\* lines 885-907: zip the four lists into verdicts; evaluation.get raises
\* AttributeError on an entry that is not a dict
Combine ==
    /\ RunFrame
    /\ pc = "combine"
    /\ LET n == Min(Min(total, Len(evidences)), Min(Len(evaluations), Len(codes)))
       IN IF \E i \in 1..n : ~evaluations[i].dict
          THEN /\ pc' = "raised"
               /\ results' = results
          ELSE /\ pc' = "done"
               /\ results' = [i \in 1..n |->
                     Verdict(claims[i],
                             IF evaluations[i].has THEN evaluations[i].verified ELSE FALSE,
                             IF evaluations[i].has THEN evaluations[i].confidence ELSE 0,
                             evidences[i],
                             IF evaluations[i].has THEN evaluations[i].kind ELSE "",
                             codes[i])]
    /\ UNCHANGED <<cfg, mode, claims, batch_idx, codes, evidences, evaluations,
                   requests, terminal_error, tick>>

\* ------------------------------------------------------- the per-claim path
NoCode == Code("none", 0, 0)

\* replies to the single-claim code-generation prompt: a program text
SingleGenOutcomes ==
    {Reply([fence |-> f, body |-> TextBody(k)]) :
        f \in BOOLEAN, k \in ProgramKinds \cup {"empty"}}
    \cup {Failure(e) : e \in ErrKinds}

\* replies to the single-claim evaluation prompt
SingleEvalOutcomes ==
    {Reply([fence |-> f, body |-> b]) :
        f \in BOOLEAN,
        b \in {NoBody, ScalarBody, StringBody(2), ObjectBody(1), ArrayBody(1, "verified09")}
              \cup {EvalObject(e) : e \in {"verified09", "notverified02", "emptydict"}}}
    \cup {Failure(e) : e \in ErrKinds}

\* _generate_verification_code(claim): the cleaned code, or None
generate_verification_code(c, o) ==
    LET r == call_llm(c, FALSE, o, o)
    IN IF r.ok /\ r.wire.body.t = "text" /\ r.wire.body.elem # "empty"
       THEN [code |-> Code(r.wire.body.elem, 0, 0), requests |-> r.n, err |-> "none"]
       ELSE [code |-> NoCode, requests |-> r.n, err |-> r.err]

\* _evaluate_execution_result(claim, evidence, code).
\* raised: json.dumps(evidence) at line 487 raised TypeError, outside the try.
evaluate_execution_result(c, evidence, o1, o2) ==
    LET r == call_llm(c, TRUE, o1, o2)
        heuristic == HeuristicEvaluation(evidence)
        parsed == r.ok /\ ~r.wire.fence /\ r.wire.body.t \in {"object", "array", "scalar", "string"}
        value == IF r.wire.body.t = "object"
                 THEN Evaluation(IF r.wire.body.elem = "none" THEN "emptydict"
                                 ELSE r.wire.body.elem, 0, 0)
                 ELSE Evaluation("nondict", 0, 0)
    IN IF ~JsonSerializable(evidence)
       THEN [raised |-> TRUE, evaluation |-> heuristic, requests |-> 0, err |-> "none"]
       ELSE [raised |-> FALSE,
             evaluation |-> IF parsed THEN value ELSE heuristic,
             requests |-> r.n,
             err |-> r.err]

\* verify_claim(claim) under the try/except of verify_claims_batch (lines 933-956)
verify_claim(c, claim, og, o1, o2) ==
    LET g == generate_verification_code(c, og)
        x == execute_verification_code(ProgramText(g.code.kind))
        v == evaluate_execution_result(c, ResultOrEmpty(x), o1, o2)
        failed == Verdict(claim, FALSE, 0, "empty_dict", "Verification failed", NoCode)
    IN IF g.code = NoCode
       THEN [returns |-> TRUE, requests |-> g.requests, errs |-> {g.err},
             verdict |-> Verdict(claim, FALSE, 0, "empty_list",
                                 "Failed to generate verification code", NoCode)]
       ELSE IF ~x.returns
       THEN [returns |-> FALSE, requests |-> g.requests, errs |-> {g.err}, verdict |-> failed]
       ELSE IF ~x.success
       THEN [returns |-> TRUE, requests |-> g.requests, errs |-> {g.err},
             verdict |-> Verdict(claim, FALSE, 0, "empty_list",
                                 "Code execution failed", g.code)]
       ELSE IF v.raised \/ ~v.evaluation.dict
       THEN [returns |-> TRUE, requests |-> g.requests + v.requests,
             errs |-> {g.err, v.err}, verdict |-> failed]
       ELSE [returns |-> TRUE, requests |-> g.requests + v.requests,
             errs |-> {g.err, v.err},
             verdict |-> Verdict(claim,
                                 IF v.evaluation.has THEN v.evaluation.verified ELSE FALSE,
                                 IF v.evaluation.has THEN v.evaluation.confidence ELSE 0,
                                 x.result,
                                 IF v.evaluation.has THEN v.evaluation.kind ELSE "",
                                 g.code)]

\* lines 926-931
StartSingle ==
    /\ RunFrame
    /\ pc = "start" /\ mode = "single"
    /\ pc' = "single"
    /\ UNCHANGED <<cfg, mode, claims, batch_idx, codes, evidences, evaluations,
                   results, requests, terminal_error, tick>>

\* lines 933-956: one iteration of the loop of verify_claims_batch
VerifyNext ==
    /\ RunFrame
    /\ pc = "single" /\ Len(results) < total
    /\ \E og \in SingleGenOutcomes : \E o1 \in SingleEvalOutcomes :
       \E o2 \in SecondOutcomes(cfg, o1, SingleEvalOutcomes) :
         LET r == verify_claim(cfg, claims[Len(results) + 1], og, o1, o2)
         IN /\ requests' = requests + r.requests
            /\ terminal_error' = (terminal_error \/ (r.errs \cap TerminalErrKinds) # {})
            /\ IF r.returns
               THEN results' = Append(results, r.verdict) /\ pc' = pc
               ELSE results' = results /\ pc' = "in_exec"
    /\ UNCHANGED <<cfg, mode, claims, batch_idx, codes, evidences, evaluations, tick>>

\* line 958
SingleDone ==
    /\ RunFrame
    /\ pc = "single" /\ Len(results) = total
    /\ pc' = "done"
    /\ UNCHANGED <<cfg, mode, claims, batch_idx, codes, evidences, evaluations,
                   results, requests, terminal_error, tick>>

Next ==
    \/ Start
    \/ GenerateBatch
    \/ GenerateDone
    \/ ExecuteNext
    \/ Spin
    \/ ExecuteDone
    \/ EvaluateBatch
    \/ EvaluateDone
    \/ Combine
    \/ StartSingle
    \/ VerifyNext
    \/ SingleDone

BatchInit == RunInit(MaxClaims, MaxSingleClaims)

Spec == BatchInit /\ [][Next]_vars

\* The same run under the scheduling the code has: one thread that keeps taking
\* its next step for as long as it has one.
MaxLiveClaims == 2

LiveInit == RunInit(MaxLiveClaims, MaxLiveClaims)

SpecLive == LiveInit /\ [][Next]_vars /\ WF_vars(Next)

\* ======================================================= claims on the run
\* the batch a 1-based claim position belongs to, and its position inside it
BatchOf(i) == ((i - 1) \div batch_size) + 1
PosInBatch(i) == ((i - 1) % batch_size) + 1

Finished == pc \in {"done", "raised"}

\* C1: every finished batch-optimized run returns exactly N verdicts, the i-th
\* carrying the i-th input claim and that claim's id, whatever the LLM replied.
C1_OneVerdictPerClaim ==
    (mode = "batch" /\ Finished) =>
        /\ pc = "done"
        /\ Len(results) = total
        /\ \A i \in 1..Len(results) :
              results[i].claim = claims[i] /\ results[i].claim_id = claims[i].id

\* C2: in a completed batch-optimized run the program, the evidence and the
\* evaluation at position i are the ones produced for claim i: the program and
\* the evaluation are a fallback or the entry at claim i's position of the
\* reply for claim i's batch, and the evidence is what running that program gives.
C2_OrderPreserved ==
    (mode = "batch" /\ pc = "done") =>
        \A i \in 1..Len(results) :
            /\ results[i].code = codes[i]
            /\ \/ codes[i].batch = 0
               \/ codes[i].batch = BatchOf(i) /\ codes[i].pos = PosInBatch(i)
            /\ results[i].evidence =
                  ResultOrEmpty(execute_verification_code(ProgramText(codes[i].kind)))
            /\ \/ evaluations[i].batch = 0
               \/ evaluations[i].batch = BatchOf(i) /\ evaluations[i].pos = PosInBatch(i)

LowConfidence == 1

\* C3: in either path, a verdict whose program failed to execute is
\* not-verified with low confidence, whatever the evaluation LLM replied.
C3_FailedExecutionNotVerified ==
    pc = "done" =>
        \A i \in 1..Len(results) :
            (results[i].code # NoCode
             /\ ~execute_verification_code(ProgramText(results[i].code.kind)).success)
            => (~results[i].verified /\ results[i].confidence <= LowConfidence)

\* C6: a run in which an LLM call failed with an AUTH, NOT_FOUND,
\* INSUFFICIENT_FUNDS or RATE_LIMIT error never completes with a list of verdicts.
C6_TerminalErrorSurfaced ==
    terminal_error => pc # "done"

\* C7 as stated: the requests of a batch-optimized run never exceed 2*ceil(N/B)+1.
C7_RequestsWithinSpecBound ==
    mode = "batch" => requests <= 2 * num_batches + 1

\* C7 amended: the requests of a batch-optimized run, every retry without JSON
\* mode counted, never exceed 4*ceil(N/B).
C7_RequestsWithinTwicePerCall ==
    mode = "batch" => requests <= 4 * num_batches

\* a completed run in which every call was retried without JSON mode
C7_Witness ==
    mode = "batch" /\ pc = "done" /\ num_batches >= 1 /\ requests = 4 * num_batches

\* ======================================================= single calls of the batch functions
\* A specification that applies _generate_verification_code_batch and
\* _evaluate_execution_results_batch to every input within the bounds.
RunIdle ==
    /\ cfg = [provider |-> "none", model |-> "none"]
    /\ mode = "none"
    /\ claims = <<>>
    /\ pc = "idle"
    /\ batch_idx = 0
    /\ codes = <<>>
    /\ evidences = <<>>
    /\ evaluations = <<>>
    /\ results = <<>>
    /\ requests = 0
    /\ terminal_error = FALSE
    /\ tick = 0

CallsInit ==
    /\ RunIdle
    /\ \E c \in Configs :
         \/ \E n \in 1..MaxBatch :
            \E o1 \in Outcomes(GenElems, n + MaxExtra) :
            \E o2 \in SecondOutcomes(c, o1, Outcomes(GenElems, n + MaxExtra)) :
               call = [fn |-> "generate", cfg |-> c, n |-> n, evidences |-> <<>>,
                       o1 |-> o1, o2 |-> o2]
         \/ \E n \in 1..MaxBatch :
            \E ev \in [1..n -> Values] :
            \E o1 \in Outcomes(EvalElems, n + MaxExtra) :
            \E o2 \in SecondOutcomes(c, o1, Outcomes(EvalElems, n + MaxExtra)) :
               call = [fn |-> "evaluate", cfg |-> c, n |-> n, evidences |-> ev,
                       o1 |-> o1, o2 |-> o2]
    /\ ret = NoRet
    /\ ExecIdle /\ CacheIdle /\ RestIdle

\* codes = self._generate_verification_code_batch(claims)
CallGenerate ==
    /\ call.fn = "generate" /\ ~ret.done
    /\ LET g == generate_verification_code_batch(call.cfg, call.n, 1, call.o1, call.o2)
       IN ret' = [done |-> TRUE, codes |-> g.codes, evals |-> <<>>, raised |-> FALSE,
                  requests |-> g.requests, err |-> g.err]
    /\ UNCHANGED <<runVars, call, execVars, cacheVars, restVars>>

\* evaluations = self._evaluate_execution_results_batch(claims, evidences, codes)
CallEvaluate ==
    /\ call.fn = "evaluate" /\ ~ret.done
    /\ LET e == evaluate_execution_results_batch(call.cfg, call.n, call.evidences, 1,
                                                 call.o1, call.o2)
       IN ret' = [done |-> TRUE, codes |-> <<>>, evals |-> e.evals, raised |-> e.raised,
                  requests |-> e.requests, err |-> e.err]
    /\ UNCHANGED <<runVars, call, execVars, cacheVars, restVars>>

CallsNext == CallGenerate \/ CallEvaluate

SpecCalls == CallsInit /\ [][CallsNext]_vars

\* what the gateway hands back for the call under test
CallReply == call_llm(call.cfg, TRUE, call.o1, call.o2)

\* C4: _generate_verification_code_batch returns exactly one program per claim:
\* all fallback programs when the call raised or the reply is not JSON, and the
\* reply's programs followed by fallback programs when the array is short.
C4_OneProgramPerClaim ==
    (ret.done /\ call.fn = "generate") =>
        /\ Len(ret.codes) = call.n
        /\ (~CallReply.ok \/ CallReply.wire.body.t = "garbage")
              => \A i \in 1..Len(ret.codes) : ret.codes[i] = FallbackCode
        /\ (CallReply.ok /\ CallReply.wire.body.t = "array"
            /\ CallReply.wire.body.elem # "nonstring" /\ CallReply.wire.body.n < call.n)
              => \A i \in 1..Len(ret.codes) :
                    IF i <= CallReply.wire.body.n
                    THEN ret.codes[i] = Code(CallReply.wire.body.elem, 1, i)
                    ELSE ret.codes[i] = FallbackCode

\* "evidence.found is true": the found flag of evidence; a result that is not a
\* dict counts as found when it is truthy
ClaimedFound(evidence) == evidence \in {"dict_found", "dict_set", "list"}

\* the evaluation request was sent and raised, or its reply is not parseable JSON
EvalCallFailed ==
    /\ ret.done /\ call.fn = "evaluate" /\ ~ret.raised
    /\ \/ ~CallReply.ok
       \/ CallReply.wire.fence
       \/ CallReply.wire.body.t = "garbage"

\* C5: when the evaluation call raises or its reply cannot be parsed, the batch
\* gets one verdict per claim with verified = found, confidence 0.5 if found
\* else 0.1, and the fallback noted in the reasoning.
C5_HeuristicFallback ==
    EvalCallFailed =>
        /\ Len(ret.evals) = call.n
        /\ \A i \in 1..Len(ret.evals) :
              /\ ret.evals[i].has /\ ret.evals[i].dict
              /\ ret.evals[i].verified = ClaimedFound(call.evidences[i])
              /\ ret.evals[i].confidence = (IF ClaimedFound(call.evidences[i]) THEN 5 ELSE 1)
              /\ ret.evals[i].kind \in {"heuristic_found", "heuristic_notfound"}

\* a failed evaluation call over a batch holding found and not-found evidence,
\* one of them not a dict
C5_Witness ==
    /\ EvalCallFailed
    /\ \E i, j \in 1..Len(ret.evals) :
          /\ ret.evals[i].verified /\ ~ret.evals[j].verified
          /\ ~IsDict(call.evidences[i])

\* ======================================================= the sandbox on its own
\* A specification that runs _execute_verification_code on every program of at
\* most MaxStmts statements drawn from ExecStmts.
MaxStmts == 3

ExecStmts ==
    {Stmt("assign", "none", "dict_found"),
     Stmt("assign", "none", "list"),
     Stmt("call", "code_search", "none"),
     Stmt("call", "open", "none"),
     Stmt("import", "os", "none"),
     Stmt("try_call", "open", "dict_found"),
     Stmt("try_import", "os", "dict_found"),
     Stmt("loop", "none", "none"),
     Stmt("reach", "code_search", "open"),
     Stmt("reach", "code_search", "__import__"),
     Stmt("reach", "notebook_search", "subprocess")}

Programs == UNION {[1..n -> ExecStmts] : n \in 0..MaxStmts}

ExecInit ==
    /\ RunIdle /\ CallIdle /\ CacheIdle /\ RestIdle
    /\ program \in Programs
    /\ execution = NoExecution

\* execution_result = self._execute_verification_code(program), when exec returns
Execute ==
    /\ ~execution.done
    /\ LET x == execute_verification_code(program)
       IN /\ x.returns
          /\ execution' = [done |-> TRUE, returns |-> TRUE, success |-> x.success,
                           result |-> x.result, error |-> x.error,
                           host_reads |-> x.host_reads, tool_calls |-> x.tool_calls,
                           modules |-> x.modules, processes |-> x.processes]
    /\ UNCHANGED <<runVars, callVars, program, cacheVars, restVars>>

\* exec(python_code, sandbox, sandbox) of a program that loops forever: the
\* effects of the statements before the loop have happened, nothing is returned
ExecuteForever ==
    /\ ~execution.done
    /\ LET x == execute_verification_code(program)
       IN /\ ~x.returns
          /\ execution' = [done |-> TRUE, returns |-> FALSE, success |-> FALSE,
                           result |-> "none", error |-> "none",
                           host_reads |-> x.host_reads, tool_calls |-> x.tool_calls,
                           modules |-> x.modules, processes |-> x.processes]
    /\ UNCHANGED <<runVars, callVars, program, cacheVars, restVars>>

ExecNext == Execute \/ ExecuteForever

SpecExec == ExecInit /\ [][ExecNext]_vars

\* statement i of the program under test is executed: no earlier statement
\* loops forever or raises out of the program
Reaches(i) ==
    \A j \in 1..(i - 1) :
        /\ program[j].op # "loop"
        /\ program[j].op # "import"
        /\ ~(program[j].op = "call" /\ program[j].name = "open")
        /\ ~(program[j].op = "reach" /\ ~Reachable(program[j].name, program[j].val))

\* the statement calls open, by its name or as found through a tool
IsOpenCall(st) ==
    \/ st.op \in {"call", "try_call"} /\ st.name = "open"
    \/ st.op = "reach" /\ st.val = "open"
\* the statement loads a module, by import or by __import__ found through a tool
IsImport(st) ==
    \/ st.op \in {"import", "try_import"}
    \/ st.op = "reach" /\ st.val = "__import__"

\* C8: the namespace binds only the three tools, result and the curated
\* builtins, so a program that calls open(...) or loads a module ends with
\* {success: false}, reads no file, loads no module and yields no evidence.
C8_OpenOrImportFails ==
    (execution.done /\ execution.returns
     /\ \E i \in 1..Len(program) :
           Reaches(i) /\ (IsOpenCall(program[i]) \/ IsImport(program[i])))
        => /\ ~execution.success
           /\ execution.host_reads = 0
           /\ execution.modules = 0
           /\ execution.result = "none"

\* ======================================================= termination of the run
\* C9: execution of each generated program is bounded, so the execution phase
\* of a run always reaches the evaluation phase and the run terminates.
C9_ExecutionBounded ==
    /\ (pc = "exec") ~> (pc \in {"eval", "combine", "done", "raised"})
    /\ (pc = "single") ~> (pc = "done")

\* ======================================================= the XML claim cache
\* One cache key on disk, one process that calls save_cache for it and one
\* process that calls has_cache / get_cache for it, interleaved at the file
\* system calls. A file is "missing", "partial" (opened for writing, its text
\* not yet complete) or holds the complete text written for a value.
MaxSaves == 2
MaxReads == 3

CacheValues == {"v1", "v2"}

CacheInit ==
    /\ RunIdle /\ CallIdle /\ ExecIdle /\ RestIdle
    /\ fs = NoFs
    /\ writer = NoWriter
    /\ reader = NoReader

CacheFrame == UNCHANGED <<runVars, callVars, execVars, restVars>>

\* save_cache line 155, cache_path.write_text: open(path, "w") creates or truncates
SaveOpenXml ==
    /\ CacheFrame
    /\ writer.pc = "idle" /\ writer.saves < MaxSaves
    /\ \E v \in CacheValues :
          writer' = [writer EXCEPT !.pc = "xml_open", !.val = v, !.orphan = FALSE]
    /\ fs' = [fs EXCEPT !.xml = "partial"]
    /\ UNCHANGED reader

\* save_cache line 155: the text reaches the open file and the file is closed;
\* after an unlink the open file is no longer the one the path names
SaveWriteXml ==
    /\ CacheFrame
    /\ writer.pc = "xml_open"
    /\ fs' = IF writer.orphan THEN fs ELSE [fs EXCEPT !.xml = writer.val]
    /\ writer' = [writer EXCEPT !.pc = "xml_closed", !.orphan = FALSE]
    /\ UNCHANGED reader

\* save_cache line 169, metadata_path.write_text: open(path, "w")
SaveOpenMeta ==
    /\ CacheFrame
    /\ writer.pc = "xml_closed"
    /\ fs' = [fs EXCEPT !.meta = "partial"]
    /\ writer' = [writer EXCEPT !.pc = "meta_open"]
    /\ UNCHANGED reader

\* save_cache lines 169-171: the metadata text is written, save_cache returns
SaveWriteMeta ==
    /\ CacheFrame
    /\ writer.pc = "meta_open"
    /\ fs' = IF writer.orphan THEN fs ELSE [fs EXCEPT !.meta = writer.val]
    /\ writer' = [writer EXCEPT !.pc = "idle", !.orphan = FALSE,
                                !.saves = @ + 1, !.last = writer.val]
    /\ UNCHANGED reader

\* has_cache lines 72-76 / get_cache lines 100-104: cache_path.exists()
ReadExists ==
    /\ CacheFrame
    /\ reader.pc = "idle" /\ reader.reads < MaxReads
    /\ \E op \in {"has", "get"} :
          reader' = [op |-> op,
                     pc |-> IF fs.xml = "missing" THEN "idle" ELSE "parse",
                     val |-> "none",
                     expect |-> IF writer.pc = "idle" /\ writer.saves > 0
                                THEN writer.last ELSE "any",
                     epoch |-> writer.saves,
                     result |-> IF fs.xml = "missing" THEN "miss" ELSE "none",
                     reads |-> reader.reads + 1]
    /\ UNCHANGED <<fs, writer>>

\* has_cache line 80 / get_cache lines 108-112: ET.parse(str(cache_path))
ReadParse ==
    /\ CacheFrame
    /\ reader.pc = "parse"
    /\ reader' =
          IF fs.xml = "missing"
          THEN \* FileNotFoundError: has_cache lets it out, get_cache goes to its handler
               IF reader.op = "has"
               THEN [reader EXCEPT !.pc = "idle", !.result = "raised"]
               ELSE [reader EXCEPT !.pc = "unlink_xml"]
          ELSE IF fs.xml = "partial"
          THEN [reader EXCEPT !.pc = "unlink_xml"]
          ELSE IF reader.op = "has"
          THEN [reader EXCEPT !.pc = "idle", !.val = fs.xml, !.result = fs.xml]
          ELSE [reader EXCEPT !.pc = "meta", !.val = fs.xml]
    /\ UNCHANGED <<fs, writer>>

\* get_cache lines 115-120: read the metadata sidecar when it exists
ReadMeta ==
    /\ CacheFrame
    /\ reader.pc = "meta"
    /\ reader' = IF fs.meta = "partial"
                 THEN [reader EXCEPT !.pc = "unlink_xml"]
                 ELSE [reader EXCEPT !.pc = "idle", !.result = reader.val]
    /\ UNCHANGED <<fs, writer>>

\* has_cache line 84 / get_cache line 125: cache_path.unlink()
ReadUnlinkXml ==
    /\ CacheFrame
    /\ reader.pc = "unlink_xml"
    /\ IF fs.xml = "missing"
       THEN /\ reader' = [reader EXCEPT !.pc = "idle", !.result = "raised"]
            /\ UNCHANGED <<fs, writer>>
       ELSE /\ fs' = [fs EXCEPT !.xml = "missing"]
            /\ writer' = IF writer.pc = "xml_open"
                         THEN [writer EXCEPT !.orphan = TRUE] ELSE writer
            /\ reader' = [reader EXCEPT !.pc = "unlink_meta"]

\* has_cache lines 85-88 / get_cache lines 126-129: drop the sidecar, report a miss
ReadUnlinkMeta ==
    /\ CacheFrame
    /\ reader.pc = "unlink_meta"
    /\ fs' = [fs EXCEPT !.meta = "missing"]
    /\ writer' = IF writer.pc = "meta_open" /\ fs.meta # "missing"
                 THEN [writer EXCEPT !.orphan = TRUE] ELSE writer
    /\ reader' = [reader EXCEPT !.pc = "idle", !.result = "miss"]

CacheNext ==
    \/ SaveOpenXml
    \/ SaveWriteXml
    \/ SaveOpenMeta
    \/ SaveWriteMeta
    \/ ReadExists
    \/ ReadParse
    \/ ReadMeta
    \/ ReadUnlinkXml
    \/ ReadUnlinkMeta

SpecCache == CacheInit /\ [][CacheNext]_vars

\* C10: a reader observes a miss or a complete entry, and a get_cache that runs
\* after save_cache(k, v) has returned, with no save in between, succeeds and
\* yields the last writer's value.
C10_PartialWritesNotExposed ==
    /\ reader.result \in {"none", "miss"} \cup CacheValues
    /\ (/\ reader.op = "get" /\ reader.pc = "idle" /\ reader.result # "none"
        /\ reader.expect # "any"
        /\ writer.pc = "idle" /\ writer.saves = reader.epoch)
          => reader.result = reader.expect

\* ======================================================= the cache's XML conversion
\* Python values of a claim's fields, as records [t, s, items]: t is the type,
\* s the text of a scalar, items the entries [key, val] of a list (key "") or of
\* a dict. An XML element is [tag, text, kids]; an element without text has "".
MaxItems == 2
MaxXmlClaims == 2

PyStr(s) == [t |-> "str", s |-> s, items |-> <<>>]
PyNone == [t |-> "none", s |-> "", items |-> <<>>]
PyInt == [t |-> "int", s |-> "5", items |-> <<>>]
PyBool == [t |-> "bool", s |-> "True", items |-> <<>>]
PyList(items) == [t |-> "list", s |-> "", items |-> items]
PyDict(items) == [t |-> "dict", s |-> "", items |-> items]
Entry(key, val) == [key |-> key, val |-> val]

\* str(value)
PyStrOf(v) ==
    CASE v.t = "none" -> "None"
      [] v.t \in {"list", "dict"} -> "repr"
      [] OTHER -> v.s

\* text.strip()
Strip(text) == IF text = " a " THEN "a" ELSE text

\* key.startswith('_')
IsInternalKey(key) == key \in {"_f"}

Elem(tag, text, kids) == [tag |-> tag, text |-> text, kids |-> kids]

\* _dict_to_xml lines 193-208: the element written for one field of a claim
FieldElem(key, value) ==
    CASE value.t = "list" ->
            Elem(key, "", [i \in 1..Len(value.items) |->
                              Elem("item", PyStrOf(value.items[i].val), <<>>)])
      [] value.t = "dict" ->
            Elem(key, "", [i \in 1..Len(value.items) |->
                              Elem(value.items[i].key, PyStrOf(value.items[i].val), <<>>)])
      [] OTHER ->
            Elem(key, IF value.t = "none" THEN "" ELSE PyStrOf(value), <<>>)

\* _dict_to_xml lines 183-218, followed by ET.parse of the written text
dict_to_xml(claim_list) ==
    Elem("claims", "",
         [c \in 1..Len(claim_list) |->
             LET kept == SelectSeq(claim_list[c].items, LAMBDA e : ~IsInternalKey(e.key))
             IN Elem("claim", "", [i \in 1..Len(kept) |-> FieldElem(kept[i].key, kept[i].val)])])

\* lines 240-246: result[child.tag] = child_value, or the list of the values of
\* the children that share the tag
RECURSIVE PutChild(_, _, _, _)
PutChild(acc, i, tag, value) ==
    IF i > Len(acc) THEN Append(acc, Entry(tag, value))
    ELSE IF acc[i].key = tag
    THEN [acc EXCEPT ![i].val =
             IF @.t = "list" THEN PyList(Append(@.items, Entry("", value)))
             ELSE PyList(<<Entry("", @), Entry("", value)>>)]
    ELSE PutChild(acc, i + 1, tag, value)

\* _xml_to_dict lines 229-252: element_to_value(elem)
RECURSIVE element_to_value(_)
RECURSIVE DictOfKids(_, _, _)
DictOfKids(kids, i, acc) ==
    IF i > Len(kids) THEN acc
    ELSE DictOfKids(kids, i + 1, PutChild(acc, 1, kids[i].tag, element_to_value(kids[i])))

element_to_value(elem) ==
    IF Len(elem.kids) > 0
    THEN IF \A i \in 1..Len(elem.kids) : elem.kids[i].tag = "item"
         THEN PyList([i \in 1..Len(elem.kids) |-> Entry("", PyStr(Strip(elem.kids[i].text)))])
         ELSE PyDict(DictOfKids(elem.kids, 1, <<>>))
    ELSE PyStr(Strip(elem.text))

\* lines 259-266: claim_dict[child.tag] = element_to_value(child)
RECURSIVE ClaimOfKids(_, _, _)
ClaimOfKids(kids, i, acc) ==
    IF i > Len(kids) THEN acc
    ELSE LET value == element_to_value(kids[i])
             at == {j \in 1..Len(acc) : acc[j].key = kids[i].tag}
         IN ClaimOfKids(kids, i + 1,
                        IF at = {} THEN Append(acc, Entry(kids[i].tag, value))
                        ELSE [j \in 1..Len(acc) |->
                                 IF j \in at THEN Entry(acc[j].key, value) ELSE acc[j]])

\* _xml_to_dict lines 255-268: the 'claims' list of the result
xml_to_dict(root) ==
    LET claim_elems == SelectSeq(root.kids, LAMBDA e : e.tag = "claim")
    IN [c \in 1..Len(claim_elems) |-> PyDict(ClaimOfKids(claim_elems[c].kids, 1, <<>>))]

\* the field values the specification draws claims from
XmlScalars == {PyStr("a"), PyStr(" a "), PyStr(""), PyNone, PyInt, PyBool}

XmlLists ==
    UNION {{PyList([i \in 1..n |-> Entry("", f[i])]) : f \in [1..n -> XmlScalars]} :
              n \in 0..MaxItems}

XmlDicts ==
    {PyDict(<<>>)}
    \cup {PyDict(<<Entry(k, v)>>) : k \in {"k", "item"}, v \in XmlScalars}
    \cup {PyDict(<<Entry("k", v), Entry("item", w)>>) : v, w \in XmlScalars}

XmlNested ==
    {PyDict(<<Entry("k", PyDict(<<Entry("j", PyStr("a"))>>))>>),
     PyList(<<Entry("", PyList(<<Entry("", PyStr("a"))>>))>>)}

XmlValues == XmlScalars \cup XmlLists \cup XmlDicts \cup XmlNested

XmlClaims == {PyDict(<<Entry(k, v)>>) : k \in {"f", "_f"}, v \in XmlValues}

XmlInit ==
    /\ RunIdle /\ CallIdle /\ ExecIdle /\ CacheIdle
    /\ store = EmptyStore /\ last_op = NoOp
    /\ ExtIdle /\ MoreIdle
    /\ \E n \in 0..MaxXmlClaims : \E f \in [1..n -> XmlClaims] :
          conv = [done |-> FALSE, v |-> f, out |-> <<>>]

\* save_cache(k, v) followed by get_cache(k)['claims']
RoundTrip ==
    /\ ~conv.done
    /\ conv' = [conv EXCEPT !.done = TRUE, !.out = xml_to_dict(dict_to_xml(conv.v))]
    /\ UNCHANGED <<runVars, callVars, execVars, cacheVars, store, last_op, extVars, moreVars>>

SpecXml == XmlInit /\ [][RoundTrip]_vars

\* C11: get_cache(k) after save_cache(k, v) returns a claim list equal to v,
\* whatever the claims' fields hold.
C11_RoundTrip == conv.done => conv.out = conv.v

\* ======================================================= the cache directory, call by call
\* XMLCache calls made one after another on a directory holding the entries of
\* the card texts in CardTexts. A file is "missing", "corrupt" (the text of an
\* interrupted write) or complete.
StoreInit ==
    /\ RunIdle /\ CallIdle /\ ExecIdle /\ CacheIdle
    /\ conv = NoConv
    /\ store = EmptyStore
    /\ last_op = NoOp
    /\ ExtIdle /\ MoreIdle

StoreFrame == UNCHANGED <<runVars, callVars, execVars, cacheVars, conv, extVars, moreVars>>

Returned(op, key, result) ==
    [op |-> op, key |-> key, pre |-> store, result |-> result, raised |-> FALSE]

\* mutant of RemoveCorrupted: the sidecar is left behind
RemoveEntryOnly(entry) == [entry EXCEPT !.xml = "missing"]

\* has_cache lines 82-88 / get_cache lines 122-129: cache_path.unlink(), then
\* metadata_path.unlink() when the sidecar exists
RemoveCorrupted(entry) == NoEntry

\* save_cache(k, v) lines 131-171
StoreSave ==
    /\ StoreFrame
    /\ \E k \in CardTexts, v \in CacheValues :
          /\ store' = [store EXCEPT ![k] = [xml |-> v, meta |-> "ok"]]
          /\ last_op' = Returned("save", k, "key")

\* what save_cache(k, v) leaves of an entry when its process dies before it
\* returns: nothing done yet (before the open of line 155), the entry file
\* opened and not written out, the entry file complete (line 155 done, the
\* sidecar of line 169 not opened yet), the sidecar opened and not written
\* out, or both files complete
InterruptedSaves(entry, v) ==
    {entry,
     [entry EXCEPT !.xml = "corrupt"],
     [entry EXCEPT !.xml = v],
     [xml |-> v, meta |-> "corrupt"],
     [xml |-> v, meta |-> "ok"]}

\* save_cache(k, v) of a process that dies before the call returns
SaveInterrupted ==
    /\ StoreFrame
    /\ \E k \in CardTexts, v \in CacheValues :
          /\ \E left \in InterruptedSaves(store[k], v) : store' = [store EXCEPT ![k] = left]
          /\ last_op' = [Returned("save", k, "none") EXCEPT !.raised = TRUE]

\* has_cache(k) lines 62-88
StoreHas ==
    /\ StoreFrame
    /\ \E k \in CardTexts :
          IF store[k].xml = "missing"
          THEN /\ store' = store
               /\ last_op' = Returned("has", k, "miss")
          ELSE IF store[k].xml = "corrupt"
          THEN /\ store' = [store EXCEPT ![k] = RemoveCorrupted(@)]
               /\ last_op' = Returned("has", k, "miss")
          ELSE /\ store' = store
               /\ last_op' = Returned("has", k, "hit")

\* get_cache(k) lines 90-129
StoreGet ==
    /\ StoreFrame
    /\ \E k \in CardTexts :
          IF store[k].xml = "missing"
          THEN /\ store' = store
               /\ last_op' = Returned("get", k, "miss")
          ELSE IF store[k].xml = "corrupt" \/ store[k].meta = "corrupt"
          THEN /\ store' = [store EXCEPT ![k] = RemoveCorrupted(@)]
               /\ last_op' = Returned("get", k, "miss")
          ELSE /\ store' = store
               /\ last_op' = Returned("get", k, store[k].xml)

\* clear_cache(model_card_text) lines 286-309; "None" stands for the argument None
StoreClear ==
    /\ StoreFrame
    /\ \E arg \in CardTexts \cup {"None"} :
          /\ store' = IF arg \notin {"None", ""}   \* if model_card_text:
                      THEN [store EXCEPT ![arg] = NoEntry]
                      ELSE EmptyStore
          /\ last_op' = Returned("clear", arg, "none")

StoreNext ==
    \/ StoreSave
    \/ SaveInterrupted
    \/ StoreHas
    \/ StoreGet
    \/ StoreClear

SpecStore == StoreInit /\ [][StoreNext]_vars

\* the last call was a has_cache or get_cache that met an entry it cannot parse
FoundUnparseable ==
    /\ last_op.op \in {"has", "get"}
    /\ \/ last_op.pre[last_op.key].xml = "corrupt"
       \/ /\ last_op.op = "get"
          /\ last_op.pre[last_op.key].xml # "missing"
          /\ last_op.pre[last_op.key].meta = "corrupt"

\* C12: has_cache / get_cache on an entry that cannot be parsed reports a miss
\* without raising, and afterwards neither the entry file nor its sidecar exists.
C12_CorruptEntryRemoved ==
    FoundUnparseable =>
        /\ last_op.result = "miss" /\ ~last_op.raised
        /\ store[last_op.key] = NoEntry

\* a corrupt entry that had a sidecar was looked up
C12_Witness ==
    /\ FoundUnparseable
    /\ last_op.pre[last_op.key].xml = "corrupt"
    /\ last_op.pre[last_op.key].meta # "missing"

\* C13: clear_cache(card_text) removes exactly the entry and sidecar of that
\* card text, for every string (the empty one included), and clear_cache(None)
\* removes every entry.
C13_ClearRemovesExactly ==
    last_op.op = "clear" =>
        IF last_op.key = "None"
        THEN store = EmptyStore
        ELSE /\ store[last_op.key] = NoEntry
             /\ \A k \in CardTexts \ {last_op.key} : store[k] = last_op.pre[k]

\* ======================================================= the claim extractor: splitting the card
\* A model card text without markdown headers is n paragraphs of k characters
\* each, joined by "\n\n" (no white space inside a paragraph), or k blanks.
\* Paras(1, 0) is the empty text. A chunk is represented by its length.
min_chunk_size == 2000
TargetChunks == 12

Paras(n, k) == [kind |-> "paras", n |-> n, k |-> k]
Blank(k) == [kind |-> "blank", n |-> 1, k |-> k]

Max(a, b) == IF a >= b THEN a ELSE b

\* len(text)
TextLen(text) ==
    IF text.kind = "blank" THEN text.k ELSE text.n * text.k + 2 * (text.n - 1)

\* the length of p consecutive paragraphs of k characters and the breaks between
GroupLen(p, k) == p * k + 2 * (p - 1)

\* the offsets of the "\n\n" inside such a run
Breaks(p, k) == {j * (k + 2) - 2 : j \in 1..(p - 1)}

\* lines 493-497: the paragraphs grouped para_per_chunk at a time; a group is
\* the number of paragraphs it holds
ParagraphChunks(text, target) ==
    LET para_per_chunk == Max(1, text.n \div target)
        groups == (text.n + para_per_chunk - 1) \div para_per_chunk
    IN [g \in 1..groups |-> Min(para_per_chunk, text.n - (g - 1) * para_per_chunk)]

\* lines 528-539: a chunk longer than len(text) // 8 is cut in two, at the last
\* paragraph break within 500 characters of its middle or else at the middle
SplitLarger(p, k, text_len) ==
    LET c == GroupLen(p, k)
        mid == c \div 2
        lo == IF mid - 500 < 0 THEN Max(0, c + mid - 500) ELSE mid - 500
        hi == Min(c, mid + 500)
        found == {b \in Breaks(p, k) : lo <= b /\ b + 2 <= hi}
        para_break == CHOOSE b \in found : \A o \in found : o <= b
        IsSpace(x) == \E b \in Breaks(p, k) : x \in {b, b + 1}
        trailing == IF mid >= 1 /\ IsSpace(mid - 1)
                    THEN IF mid >= 2 /\ IsSpace(mid - 2) THEN 2 ELSE 1
                    ELSE 0
        leading == IF IsSpace(mid) THEN IF IsSpace(mid + 1) THEN 2 ELSE 1 ELSE 0
    IN IF c > text_len \div 8
       THEN IF found # {}
            THEN <<para_break, c - para_break - 2>>
            ELSE <<mid - trailing, c - mid - leading>>
       ELSE <<c>>

RECURSIVE Flatten(_)
Flatten(seqs) == IF seqs = <<>> THEN <<>> ELSE Head(seqs) \o Flatten(Tail(seqs))

\* _smart_split_text(text, target_chunks), lines 427-556: the lengths of the
\* chunks it returns, or diverges when the loop of lines 503-521 is entered
\* (once end_pos has reached len(text), current_pos is len(text) - 200 for ever
\* and a chunk is appended on every turn).
smart_split_text(text, target_chunks) ==
    LET text_len == TextLen(text)
        whole == [diverges |-> FALSE, chunks |-> <<text_len>>]
        small == text_len < min_chunk_size * target_chunks
        target == IF small THEN Max(1, text_len \div min_chunk_size) ELSE target_chunks
        header_matches == 0
        groups ==
            IF header_matches >= target \div 2
            THEN <<text.n>>
            ELSE IF text.n >= target THEN ParagraphChunks(text, target) ELSE <<>>
        split == IF Len(groups) < 10
                 THEN Flatten([g \in 1..Len(groups) |-> SplitLarger(groups[g], text.k, text_len)])
                 ELSE [g \in 1..Len(groups) |-> GroupLen(groups[g], text.k)]
    IN IF text_len = 0 \/ text.kind = "blank" THEN whole
       ELSE IF small /\ target = 1 THEN whole
       ELSE IF header_matches < target \div 2 /\ text.n < target
       THEN [diverges |-> TRUE, chunks |-> <<>>]
       ELSE [diverges |-> FALSE, chunks |-> SubSeq(split, 1, Min(15, Len(split)))]

\* ======================================================= the claim extractor: claims
\* A claim is a PyDict of the conversion section. The descriptions met are
\* "a b", "a  b" (two blanks inside) and "A B".

\* text.lower()
Lower(text) == IF text = "A B" THEN "a b" ELSE text

\* "id" in claim
HasKey(claim, key) == \E i \in 1..Len(claim.items) : claim.items[i].key = key

\* claim.get(key, default)
GetKey(claim, key, default) ==
    IF HasKey(claim, key)
    THEN claim.items[CHOOSE i \in 1..Len(claim.items) : claim.items[i].key = key].val
    ELSE default

\* claim[key] = val
SetKey(claim, key, val) ==
    IF HasKey(claim, key)
    THEN PyDict([i \in 1..Len(claim.items) |->
                    IF claim.items[i].key = key THEN Entry(key, val) ELSE claim.items[i]])
    ELSE PyDict(Append(claim.items, Entry(key, val)))

\* mutant of DedupKey: descriptions are compared without lower()
DedupKeyCaseSensitive(claim) == Strip(GetKey(claim, "description", PyStr("")).s)

\* line 1313: claim.get("description", "").lower().strip()
DedupKey(claim) == Strip(Lower(GetKey(claim, "description", PyStr("")).s))

\* lines 1308-1326: the first claim of each description, and every claim without one
RECURSIVE Deduplicate(_, _, _)
Deduplicate(claim_list, i, unique_claims) ==
    IF i > Len(claim_list) THEN unique_claims
    ELSE LET description == DedupKey(claim_list[i])
             seen_descriptions == {DedupKey(unique_claims[j]) : j \in 1..Len(unique_claims)} \ {""}
         IN Deduplicate(claim_list, i + 1,
                        IF description = "" \/ description \notin seen_descriptions
                        THEN Append(unique_claims, claim_list[i])
                        ELSE unique_claims)

\* f"claim_{idx + 1}"
ClaimId(n) == "claim_" \o ToString(n)

\* lines 1059-1063, 1083-1087, 1336-1340: the id where it is missing, verified
\* and evidence reset
Enrich(claim_list) ==
    [i \in 1..Len(claim_list) |->
        LET with_id == IF HasKey(claim_list[i], "id") THEN claim_list[i]
                       ELSE SetKey(claim_list[i], "id", PyStr(ClaimId(i)))
        IN SetKey(SetKey(with_id, "verified", PyNone), "evidence", PyList(<<>>))]

\* json.dump of a value: the JSON text as a tree [j, s, items]
RECURSIVE json_dump(_)
json_dump(v) ==
    CASE v.t = "none" -> [j |-> "null", s |-> "", items |-> <<>>]
      [] v.t = "str" -> [j |-> "string", s |-> v.s, items |-> <<>>]
      [] v.t = "int" -> [j |-> "number", s |-> v.s, items |-> <<>>]
      [] v.t = "bool" -> [j |-> "literal", s |-> "true", items |-> <<>>]
      [] v.t = "list" ->
            [j |-> "array", s |-> "",
             items |-> [i \in 1..Len(v.items) |-> Entry("", json_dump(v.items[i].val))]]
      [] OTHER ->
            [j |-> "object", s |-> "",
             items |-> [i \in 1..Len(v.items) |-> Entry(v.items[i].key, json_dump(v.items[i].val))]]

\* json.load of such a text
RECURSIVE json_load(_)
json_load(doc) ==
    CASE doc.j = "null" -> PyNone
      [] doc.j = "string" -> PyStr(doc.s)
      [] doc.j = "number" -> [t |-> "int", s |-> doc.s, items |-> <<>>]
      [] doc.j = "literal" -> [t |-> "bool", s |-> "True", items |-> <<>>]
      [] doc.j = "array" ->
            PyList([i \in 1..Len(doc.items) |-> Entry("", json_load(doc.items[i].val))])
      [] OTHER ->
            PyDict([i \in 1..Len(doc.items) |-> Entry(doc.items[i].key, json_load(doc.items[i].val))])

\* _save_json_cache lines 582-605: the "claims" member of the latest file
SaveJson(claim_list) == json_dump(PyList([i \in 1..Len(claim_list) |-> Entry("", claim_list[i])]))

\* _load_json_cache lines 684-691: json.load(f), then .get('claims', []) of line 1055
LoadJson(doc) == LET loaded == json_load(doc) IN [i \in 1..Len(loaded.items) |-> loaded.items[i].val]

\* ======================================================= the claim extractor: extract_claims
\* One LLMClaimExtractor (provider openai, so the LLM answers in XML) and the
\* extract_claims calls made on it one after another: env.calls of them, with an
\* LLM that answers a chunk with one of env.allowed. events holds the tags of
\* the messages handed to self.logger, in order, without the [DEBUG] ones:
\* "PROGRESS" is a message without a tag. The chunks of a batch are extracted
\* by the worker threads of an executor while the main thread waits in
\* as_completed: a worker's request is a step, the arrival of the answer is a
\* step, each message the worker logs is a step, and so is the main thread's
\* handling of one completed future.
MaxCalls == 2

ExtCards == {Paras(1, 100), Paras(4, 1000), Paras(1, 4000), Paras(1, 0), Blank(3)}

\* CLAIM_EXTRACT_MAX_WORKERS; 5 when unset (line 1159)
WorkerSettings == {0, 1, 2, 5}

NoField == "-"
LLMClaim(id, description) ==
    PyDict((IF id = NoField THEN <<>> ELSE <<Entry("id", PyStr(id))>>)
           \o (IF description = NoField THEN <<>>
               ELSE <<Entry("description", PyStr(description))>>))

\* what _extract_claims_from_chunk gets for one chunk: an API error, an answer
\* no XML can be found in, or a <claims> document
NotAsked == [kind |-> "not_asked", claims |-> <<>>]
Failures == {[kind |-> k, claims |-> <<>>] : k \in {"timeout", "rate_limit", "parse_error"}}
Answers ==
    Failures \cup
    {[kind |-> "claims", claims |-> cl] :
        cl \in {<<>>,
                <<LLMClaim("claim_1", "a b")>>,
                <<LLMClaim("claim_1", "a  b")>>,
                <<LLMClaim(NoField, "A B")>>,
                <<LLMClaim("claim_2", NoField)>>}}

\* model_card_claims.json in the working directory or one of its three parents
NoWorkspaceFile == [present |-> FALSE, claims |-> <<>>]
WorkspaceFiles ==
    {NoWorkspaceFile,
     [present |-> TRUE, claims |-> <<LLMClaim("claim_1", "a b"), LLMClaim("claim_2", "A B")>>]}

NoFile == [present |-> FALSE]

\* chunks = self._smart_split_text(model_card_text, target_chunks=12), line 1120
ChunksOf(card) == smart_split_text(card, TargetChunks)

\* one run's settings: CLAIM_EXTRACT_MAX_WORKERS, the answers the LLM gives (a
\* set of answers for the first chunk, one for the second, and so on in
\* rotation), the ways the two saves of a call end (pairs: the XML cache, the
\* JSON mirror), whether the start of a worker thread can fail, and the cards
\* the callers pass
Setting(w, allowed, saves, start_fails, cards) ==
    [max_workers |-> w, allowed |-> allowed, saves |-> saves,
     start_fails |-> start_fails, cards |-> cards]

Extractor(calls, settings) ==
    /\ RunIdle /\ CallIdle /\ ExecIdle /\ CacheIdle /\ StoreIdle /\ MoreIdle
    /\ \E s \in settings, f \in WorkspaceFiles :
          env = [max_workers |-> s.max_workers, workspace |-> f, calls |-> calls,
                 allowed |-> s.allowed, saves |-> s.saves,
                 start_fails |-> s.start_fails, cards |-> s.cards]
    /\ caches = [c \in ExtCards |-> [json |-> NoFile, xml |-> NoFile]]
    /\ extraction = [pc |-> "idle"]
    /\ returns = <<>>

ExtFrame == UNCHANGED <<runVars, callVars, execVars, cacheVars, storeVars, moreVars>>

\* _extract_claims_from_chunk lines 727-1016: what it returns for an answer
ChunkClaims(answer) == IF answer.kind = "claims" THEN answer.claims ELSE <<>>

\* the messages _extract_claims_from_chunk and _extract_xml_from_response log
\* (lines 262, 294-310, 838-841, 902-905, 973-975, 984, 1002-1014), all of them
\* after the request of line 827
ChunkEvents(answer) ==
    CASE answer.kind = "claims" -> <<"PROGRESS", "SUCCESS">>
      [] answer.kind = "parse_error" -> <<"PROGRESS", "PROGRESS", "ERROR">>
      [] OTHER -> <<"ERROR", "ERROR", "WARN">>

\* mutant of Collect: a failed chunk throws away what was collected
CollectResetting(all_claims, answer) ==
    IF answer.kind = "claims" THEN all_claims \o answer.claims ELSE <<>>

\* lines 1213-1215: all_claims.extend(chunk_claims)
Collect(all_claims, answer) == all_claims \o ChunkClaims(answer)

\* a call that ended: how, and what its caller got; llm_calls counts the
\* requests sent to the LLM during the call
Ended(card, path, claim_list, events, about) ==
    [card |-> card, path |-> path, claims |-> claim_list, error_record |-> "none",
     events |-> events, llm_calls |-> about.llm_calls, chunks |-> about.chunks,
     pool |-> about.pool, answers |-> about.answers, collected |-> about.collected,
     start_failed |-> about.start_failed]

NoChunks == [llm_calls |-> 0, chunks |-> 0, pool |-> FALSE, answers |-> <<>>,
             collected |-> <<>>, start_failed |-> FALSE]

\* how save_cache (tools/xml_cache.py lines 131-171) can end: it returns; it
\* raises with no readable <key>.xml on disk (before line 155, or during it: a
\* partly written file is deleted by has_cache at the next call); it raises
\* after line 155, <key>.xml written and the side file not
XmlSaves == {"saved", "unwritten", "written"}

\* how _save_json_cache (lines 558-607) can end: it returns; it raises before
\* the open of line 604; it raises in the dump of line 605, the latest file
\* truncated or partly written
JsonSaves == {"saved", "unwritten", "partial"}

Truncated == [j |-> "truncated", s |-> "", items |-> <<>>]

\* lines 690-695: json.load of the latest file succeeds
Loadable(file) == file.present /\ file.doc # Truncated

\* lines 1303-1419 of a fresh extraction: deduplicate, enrich, log, save to the
\* XML cache and to the JSON mirror (either save may fail and is then only
\* logged), return
Finish(card, events, about, xml_save, json_save) ==
    LET unique_claims == Deduplicate(about.collected, 1, <<>>)
        claim_list == Enrich(unique_claims)
        n == Len(claim_list)
        undescribed == SelectSeq(about.collected, LAMBDA c : DedupKey(c) = "")
        logged ==
            events
            \o Repeat("WARN", Len(undescribed))
            \o <<"SUCCESS">>
            \o (IF n = 0 THEN <<"WARN">> ELSE <<>>)
            \o (IF xml_save = "saved" THEN <<"SUCCESS">> ELSE <<"WARN">>)
            \o (IF json_save = "saved"
                THEN <<"SUCCESS">> \o Repeat("PROGRESS", Min(3, n))
                     \o (IF n > 3 THEN <<"PROGRESS">> ELSE <<>>) \o <<"INFO", "INFO">>
                ELSE <<"WARN">>)
    IN /\ returns' = Append(returns, Ended(card, "fresh", claim_list, logged, about))
       /\ caches' = [caches EXCEPT
                        ![card].xml = IF xml_save \in {"saved", "written"}
                                      THEN [present |-> TRUE, root |-> dict_to_xml(claim_list)]
                                      ELSE @,
                        ![card].json = CASE json_save = "saved" ->
                                                [present |-> TRUE, doc |-> SaveJson(claim_list)]
                                         [] json_save = "partial" ->
                                                [present |-> TRUE, doc |-> Truncated]
                                         [] OTHER -> @]
       /\ extraction' = [pc |-> "idle"]

\* line 827: the LLM's answer to the request for chunk i; nothing ties it to the
\* answer it gave to an earlier request for the same chunk
Answer(i, answer) == answer \in env.allowed[((i - 1) % Len(env.allowed)) + 1]

\* the ways the two saves of a call end
Saves(xml_save, json_save) == <<xml_save, json_save>> \in env.saves

\* the workspace file answers the call (lines 635-678)
FromWorkspace == env.workspace.present /\ Len(env.workspace.claims) > 0

\* line 1044, and line 694 when the latest file is there and cannot be loaded
Started(card) ==
    <<"PROGRESS">>
    \o (IF ~FromWorkspace /\ caches[card].json.present /\ ~Loadable(caches[card].json)
        THEN <<"WARN">> ELSE <<>>)

\* a call that a cache answers, lines 1053-1094 with _load_json_cache lines
\* 609-695: the workspace file when it holds claims, else the JSON mirror, else
\* the XML cache
CacheHit(card) ==
    LET file == env.workspace
        estimated_chunks == Min(12, Max(3, Len(file.claims) \div 3))
    IN IF FromWorkspace
       THEN Ended(card, "workspace", Enrich(file.claims),
                  Started(card) \o <<"PROGRESS", "PROGRESS">>
                  \o Repeat("PROGRESS", estimated_chunks),
                  NoChunks)
       ELSE IF Loadable(caches[card].json)
       THEN Ended(card, "json", Enrich(LoadJson(caches[card].json.doc)), Started(card), NoChunks)
       ELSE Ended(card, "xml", Enrich(xml_to_dict(caches[card].xml.root)), Started(card),
                  NoChunks)

IsCached(card) ==
    \/ FromWorkspace
    \/ Loadable(caches[card].json)
    \/ caches[card].xml.present

\* the chunks of batch b (lines 1176-1180)
Batch(ext, b) ==
    {i \in 1..Len(ext.answers) : (i - 1) \div env.max_workers = b - 1}

\* the chunks handed to the executor and not yet taken up by a worker
Queued(ext) == {i \in 1..Len(ext.status) : ext.status[i] = "queued"}

\* lines 1197-1203: the executor of batch b, a worker thread per chunk, and the
\* chunks of the batch submitted to it
StartBatch(ext, b) ==
    [ext EXCEPT !.batch = b,
                !.workers = Cardinality(Batch(ext, b)),
                !.status = [i \in 1..Len(ext.status) |->
                               IF i \in Batch(ext, b) THEN "queued" ELSE ext.status[i]]]

\* extract_claims(card) up to the point where it returns, raises, or has handed
\* the chunks of its first batch to the worker pool
ExtractClaims ==
    /\ ExtFrame
    /\ extraction.pc = "idle"
    /\ Len(returns) < env.calls
    /\ \E card \in env.cards :
          LET split == ChunksOf(card)
              total_chunks == Len(split.chunks)
              started == Started(card)
          IN IF IsCached(card)
             THEN /\ returns' = Append(returns, CacheHit(card))
                  /\ UNCHANGED <<env, caches, extraction>>
             ELSE IF split.diverges
             THEN \* line 516: chunks grows until memory is exhausted
                  /\ returns' = Append(returns, Ended(card, "MemoryError", <<>>, started, NoChunks))
                  /\ UNCHANGED <<env, caches, extraction>>
             ELSE IF TextLen(card) = 0
             THEN \* line 1131: overlap_size / len(model_card_text)
                  /\ returns' = Append(returns,
                                       Ended(card, "ZeroDivisionError", <<>>, started,
                                             [NoChunks EXCEPT !.chunks = total_chunks]))
                  /\ UNCHANGED <<env, caches, extraction>>
             ELSE IF total_chunks = 1
             THEN \* lines 1152-1155: the main thread calls _extract_claims_from_chunk
                  /\ extraction' = [pc |-> "single", card |-> card,
                                    status |-> <<"queued">>, answers |-> <<NotAsked>>,
                                    logged |-> <<0>>,
                                    batch |-> 1, workers |-> 1, start_failed |-> FALSE,
                                    requests |-> 0, completed |-> 0, all_claims |-> <<>>,
                                    events |-> started \o <<"PROGRESS">>]
                  /\ UNCHANGED <<env, caches, returns>>
             ELSE IF env.max_workers = 0
             THEN \* line 1171: (total_chunks + batch_size - 1) // batch_size, caught at 1281
                  /\ returns' = Append(returns,
                                       Ended(card, "aborted", <<>>,
                                             started \o <<"PROGRESS", "PROGRESS", "PROGRESS">>,
                                             [NoChunks EXCEPT !.chunks = total_chunks,
                                                              !.pool = TRUE]))
                  /\ UNCHANGED <<env, caches, extraction>>
             ELSE /\ extraction' =
                        StartBatch([pc |-> "pool", card |-> card,
                                    status |-> [i \in 1..total_chunks |-> "waiting"],
                                    answers |-> [i \in 1..total_chunks |-> NotAsked],
                                    logged |-> [i \in 1..total_chunks |-> 0],
                                    batch |-> 0, workers |-> 0, start_failed |-> FALSE,
                                    requests |-> 0, completed |-> 0, all_claims |-> <<>>,
                                    events |-> started \o <<"PROGRESS">>], 1)
                  /\ UNCHANGED <<env, caches, returns>>

About(ext) ==
    [llm_calls |-> ext.requests, chunks |-> Len(ext.answers), pool |-> TRUE,
     answers |-> ext.answers, collected |-> ext.all_claims,
     start_failed |-> ext.start_failed]

\* the chunks whose request has been sent and whose answer is awaited
Requested(ext) == {i \in 1..Len(ext.status) : ext.status[i] = "requested"}

\* the chunks whose answer has arrived and whose messages are being logged
Running(ext) == {i \in 1..Len(ext.status) : ext.status[i] = "running"}

\* _extract_claims_from_chunk is entered for a chunk (lines 727-826, by a worker
\* thread of the executor or, for a card of one chunk, by the main thread) and
\* sends its request (line 827). The executor's queue is first in, first out:
\* a chunk is taken up when the chunks that wait before it and the chunks at
\* work are fewer than the workers.
extract_claims_from_chunk ==
    /\ ExtFrame
    /\ extraction.pc \in {"pool", "single"}
    /\ \E i \in Queued(extraction) :
          /\ Cardinality({j \in Queued(extraction) : j < i})
             + Cardinality(Requested(extraction)) + Cardinality(Running(extraction))
             < extraction.workers
          /\ extraction' = [extraction EXCEPT !.status[i] = "requested",
                                              !.requests = @ + 1]
    /\ UNCHANGED <<env, caches, returns>>

\* the call of line 827 returns the LLM's answer, or raises
ChunkAnswered ==
    /\ ExtFrame
    /\ extraction.pc \in {"pool", "single"}
    /\ \E i \in Requested(extraction), answer \in Answers :
          /\ Answer(i, answer)
          /\ extraction' = [extraction EXCEPT !.status[i] = "running",
                                              !.answers[i] = answer]
    /\ UNCHANGED <<env, caches, returns>>

\* the next message about the chunk is logged; after the last one
\* _extract_claims_from_chunk returns (a worker's future is completed)
ChunkLogs ==
    /\ ExtFrame
    /\ extraction.pc \in {"pool", "single"}
    /\ \E i \in Running(extraction) :
          LET messages == ChunkEvents(extraction.answers[i])
              n == extraction.logged[i] + 1
          IN extraction' = [extraction EXCEPT
                               !.status[i] = IF n = Len(messages) THEN "done" ELSE "running",
                               !.logged[i] = n,
                               !.events = Append(@, messages[n])]
    /\ UNCHANGED <<env, caches, returns>>

\* lines 1152-1155 and 1303-1419: _extract_claims_from_chunk has returned to
\* the main thread, which goes on with the claims of the one chunk
SingleChunkDone ==
    /\ ExtFrame
    /\ extraction.pc = "single"
    /\ extraction.status[1] = "done"
    /\ \E xml_save \in XmlSaves, json_save \in JsonSaves :
          /\ Saves(xml_save, json_save)
          /\ Finish(extraction.card, extraction.events,
                    [llm_calls |-> extraction.requests, chunks |-> 1, pool |-> FALSE,
                     answers |-> extraction.answers,
                     collected |-> ChunkClaims(extraction.answers[1]),
                     start_failed |-> FALSE],
                    xml_save, json_save)
    /\ UNCHANGED env

\* lines 1207-1218, the main thread in as_completed: it takes a completed
\* future of the batch; after the last one of the batch it submits the next
\* batch, and after the last batch it goes on to line 1257 and returns
ChunkCompleted ==
    /\ ExtFrame
    /\ extraction.pc = "pool"
    /\ ~extraction.start_failed
    /\ \E i \in 1..Len(extraction.status) :
          /\ extraction.status[i] = "done"
          /\ LET ext == [extraction EXCEPT
                            !.status[i] = "collected",
                            !.completed = @ + 1,
                            !.all_claims = Collect(@, extraction.answers[i]),
                            !.events = @ \o <<"PROGRESS">>]
                 uncollected == {j \in Batch(ext, ext.batch) : ext.status[j] # "collected"}
             IN IF uncollected # {}
                THEN /\ extraction' = ext
                     /\ UNCHANGED <<env, caches, returns>>
                ELSE IF Batch(ext, ext.batch + 1) # {}
                THEN /\ extraction' = StartBatch(ext, ext.batch + 1)
                     /\ UNCHANGED <<env, caches, returns>>
                ELSE /\ \E xml_save \in XmlSaves, json_save \in JsonSaves :
                           /\ Saves(xml_save, json_save)
                           /\ Finish(ext.card, ext.events, About(ext), xml_save, json_save)
                     /\ UNCHANGED env

\* lines 1200-1203: the chunks of a batch are submitted one by one. submit puts
\* the chunk in the executor's queue and, unless a worker has signalled that it
\* is idle, starts a thread; the workers started by the earlier submits are at
\* work meanwhile. The submit of chunk c raises because its thread cannot be
\* started: chunk c is in the queue, the chunks after it are not submitted, and
\* the threads that run are those of the earlier submits, one per submit less
\* the submits that found a worker idle (a worker is idle once its chunk is
\* done). The with statement of line 1197 then waits for the workers.
PoolFails ==
    /\ ExtFrame
    /\ extraction.pc = "pool"
    /\ env.start_fails
    /\ ~extraction.start_failed
    /\ LET batch == Batch(extraction, extraction.batch)
       IN /\ \A i \in batch : extraction.status[i] # "collected"
          /\ \E c \in batch :
                LET before == {i \in batch : i < c}
                    submitted == Cardinality(before)
                    at_work == Cardinality(before \cap (Requested(extraction)
                                                       \cup Running(extraction)))
                    finished == Cardinality({i \in before : extraction.status[i] = "done"})
                IN /\ \A i \in batch : i >= c => extraction.status[i] = "queued"
                   /\ \E threads \in 0..submitted :
                         /\ threads >= at_work
                         /\ threads >= submitted - finished
                         /\ submitted > 0 => threads > 0
                         /\ extraction' =
                               [extraction EXCEPT
                                   !.start_failed = TRUE,
                                   !.workers = threads,
                                   !.status = [i \in 1..Len(extraction.status) |->
                                                  IF i \in batch /\ i > c
                                                  THEN "waiting" ELSE extraction.status[i]]]
    /\ UNCHANGED <<env, caches, returns>>

\* the workers have run what was submitted; the exception of submit is caught at
\* line 1281: the call returns [] and saves nothing
ExtractionFails ==
    /\ ExtFrame
    /\ extraction.pc = "pool"
    /\ extraction.start_failed
    /\ \/ extraction.workers = 0
       \/ /\ Queued(extraction) = {}
          /\ Requested(extraction) = {}
          /\ Running(extraction) = {}
    /\ returns' = Append(returns,
                         Ended(extraction.card, "aborted", <<>>,
                               extraction.events \o <<"PROGRESS", "PROGRESS">>,
                               About(extraction)))
    /\ extraction' = [pc |-> "idle"]
    /\ UNCHANGED <<env, caches>>

ExtNext ==
    \/ ExtractClaims
    \/ extract_claims_from_chunk
    \/ ChunkAnswered
    \/ ChunkLogs
    \/ SingleChunkDone
    \/ ChunkCompleted
    \/ PoolFails
    \/ ExtractionFails

Claimed(id, description) == [kind |-> "claims", claims |-> <<LLMClaim(id, description)>>]
Failed(kind) == [kind |-> kind, claims |-> <<>>]

\* the answers of one run: any of Answers when the chunks are extracted one or
\* two at a time, one and the same answer when more are in flight
AnySave == XmlSaves \X JsonSaves
BothSaved == {<<"saved", "saved">>}

\* the answers and the saves of a run with w workers: with chunks in flight
\* side by side the answer to a chunk is drawn from a few, or fixed, and the
\* saves succeed
Vocabularies(w) ==
    IF w <= 1 THEN {[allowed |-> <<Answers>>, saves |-> AnySave]}
    ELSE IF w = 2
    THEN {[allowed |-> <<{Claimed("claim_1", "a b"), Failed("timeout"),
                          Claimed("claim_1", "a  b")}>>,
           saves |-> BothSaved]}
    ELSE {[allowed |-> <<{Claimed("claim_1", "a b")}, {Failed("timeout")}>>,
           saves |-> BothSaved],
          [allowed |-> <<{Claimed("claim_1", "a b")}>>, saves |-> BothSaved]}

\* one call, whatever the LLM answers
ExtInit ==
    Extractor(1, UNION {{Setting(w, v.allowed, v.saves, TRUE, ExtCards) : v \in Vocabularies(w)} :
                           w \in WorkerSettings})

SpecExtract == ExtInit /\ [][ExtNext]_vars

\* the same card extracted again and again, its chunks one at a time, the LLM
\* answering a chunk with one claim or not at all
RepeatAnswers == {Failed("timeout"), Claimed("claim_1", "a b")}

RepeatWorkers == {0, 1}

\* runs on the card of four chunks whose claims meet in the deduplication: one
\* worker and any of four claims from each chunk, or two workers and one claim
\* from each chunk; the worker threads start, the XML cache is written, the
\* JSON mirror is written or not, so that the next call is answered from one
\* of them
DedupSettings ==
    {Setting(1, <<{Claimed("claim_1", "a b"), Claimed("claim_1", "a  b"),
                   Claimed(NoField, "A B"), Claimed("claim_2", NoField)}>>,
             {"saved"} \X JsonSaves, FALSE, {Paras(4, 1000)}),
     Setting(2, <<{Claimed("claim_1", "a b")}, {Claimed(NoField, "A B")},
                  {Claimed("claim_2", NoField)}, {Claimed("claim_1", "a  b")}>>,
             {"saved"} \X JsonSaves, FALSE, {Paras(4, 1000)})}

RepeatInit ==
    Extractor(MaxCalls, {Setting(w, <<RepeatAnswers>>, AnySave, TRUE, {card}) :
                            w \in RepeatWorkers, card \in ExtCards}
                        \cup DedupSettings)

SpecRepeat == RepeatInit /\ [][ExtNext]_vars

\* ======================================================= claims on extract_claims
\* the calls that handed a ClaimSet to their caller
GaveClaimSet(r) == r.path \notin {"MemoryError", "ZeroDivisionError"}

CacheHits == {"workspace", "json", "xml"}

\* C14: once extract_claims(card_text) has returned, a later call on the same
\* card text is a cache hit: it makes no LLM call and returns the ClaimSet the
\* first call returned.
C14_SecondCallIsCacheHit ==
    \A i, j \in 1..Len(returns) :
        (i < j /\ returns[i].card = returns[j].card /\ GaveClaimSet(returns[i]))
            => /\ returns[j].path \in CacheHits
               /\ returns[j].llm_calls = 0
               /\ returns[j].claims = returns[i].claims

\* C15: a call answered by a cache emits the same sequence of progress events,
\* in type and order, as the fresh extraction of the same card, and returns the
\* same ClaimSet.
C15_HitLooksLikeFreshExtraction ==
    \A i, j \in 1..Len(returns) :
        (/\ returns[i].card = returns[j].card
         /\ returns[i].path = "fresh"
         /\ returns[j].path \in CacheHits)
            => /\ returns[j].events = returns[i].events
               /\ returns[j].claims = returns[i].claims

\* C16: the claims of every ClaimSet returned by extract_claims have pairwise
\* distinct ids, also when chunks come back with ids the LLM chose.
C16_IdsDistinct ==
    \A n \in 1..Len(returns) :
        GaveClaimSet(returns[n]) =>
            \A a, b \in 1..Len(returns[n].claims) :
                a # b => GetKey(returns[n].claims[a], "id", PyNone)
                         # GetKey(returns[n].claims[b], "id", PyNone)

\* a description lower-cased and without leading and trailing white space; ""
\* for a claim without description
Trimmed(claim) == Strip(Lower(GetKey(claim, "description", PyStr("")).s))

\* the same with every run of white space inside replaced by one blank
Normalized(claim) == IF Trimmed(claim) = "a  b" THEN "a b" ELSE Trimmed(claim)

\* positions of claim_list that hold the first claim of their description, or a
\* claim without description, descriptions being compared through Key
FirstOccurrences(claim_list, Key(_)) ==
    {i \in 1..Len(claim_list) :
        Key(claim_list[i]) = "" \/ \A j \in 1..(i - 1) : Key(claim_list[j]) # Key(claim_list[i])}

\* the subsequence of claim_list at the positions in keep
RECURSIVE Pick(_, _, _)
Pick(claim_list, keep, i) ==
    IF i > Len(claim_list) THEN <<>>
    ELSE (IF i \in keep THEN <<claim_list[i]>> ELSE <<>>) \o Pick(claim_list, keep, i + 1)

\* no two claims of the set have the same description under Key; of the claims
\* collected from the chunks the set holds the first of every description and
\* all those without description
UniqueUnder(r, Key(_)) ==
    /\ \A a, b \in 1..Len(r.claims) :
          (a # b /\ Key(r.claims[a]) # "") => Key(r.claims[a]) # Key(r.claims[b])
    /\ r.path = "fresh" =>
          r.claims = Enrich(Pick(r.collected, FirstOccurrences(r.collected, Key), 1))

\* C17 as stated: in every ClaimSet returned by extract_claims no two claims
\* have descriptions equal after case folding and white-space normalization,
\* the first occurrence is the one kept and claims without description stay.
C17_UniqueNormalizedDescriptions ==
    \A n \in 1..Len(returns) :
        GaveClaimSet(returns[n]) => UniqueUnder(returns[n], Normalized)

\* the descriptions of a ClaimSet, lower-cased and trimmed, in its order
Descriptions(claim_list) == [i \in 1..Len(claim_list) |-> Trimmed(claim_list[i])]

\* C17 amended: in every ClaimSet returned by extract_claims otherwise than
\* from the workspace file, no two claims have descriptions equal after
\* lower-casing and trimming (white space inside a description is compared as
\* it is); a fresh extraction keeps, of the claims it collected, the first
\* occurrence of every description and each claim without description, and a
\* hit on the JSON mirror or the XML cache returns the descriptions of the
\* fresh extraction of the card that was saved.
C17_UniqueTrimmedDescriptions ==
    \A n \in 1..Len(returns) :
        (GaveClaimSet(returns[n]) /\ returns[n].path # "workspace")
            => /\ UniqueUnder(returns[n], Trimmed)
               /\ returns[n].path \in CacheHits =>
                      \E m \in 1..(n - 1) :
                          /\ returns[m].path = "fresh"
                          /\ returns[m].card = returns[n].card
                          /\ Descriptions(returns[n].claims) = Descriptions(returns[m].claims)

\* a fresh extraction collected two claims whose descriptions differ in case
\* only, and a claim without description; the next call on the card was
\* answered from the XML cache
C17_Witness ==
    \E n \in 1..Len(returns) :
        /\ returns[n].path = "fresh"
        /\ \E m \in (n + 1)..Len(returns) :
              /\ returns[m].path = "xml"
              /\ returns[m].card = returns[n].card
              /\ Len(returns[m].claims) = Len(returns[n].claims)
        /\ \E a, b, c \in 1..Len(returns[n].collected) :
              /\ a < b
              /\ Trimmed(returns[n].collected[a]) = Trimmed(returns[n].collected[b])
              /\ GetKey(returns[n].collected[a], "description", PyNone)
                 # GetKey(returns[n].collected[b], "description", PyNone)
              /\ Trimmed(returns[n].collected[a]) # ""
              /\ Trimmed(returns[n].collected[c]) = ""
        /\ Len(returns[n].claims) < Len(returns[n].collected)

\* the chunks of a call that failed
FailedChunks(answers) == {i \in 1..Len(answers) : answers[i] \in Failures}

\* the number of claims the chunks in among hold
RECURSIVE ClaimCount(_, _)
ClaimCount(answers, among) ==
    IF among = {} THEN 0
    ELSE LET i == CHOOSE x \in among : TRUE
         IN Len(answers[i].claims) + ClaimCount(answers, among \ {i})

\* claim, as a chunk delivered it, is in the set, or the earlier claim of the
\* same description is
Appears(claim, claim_list) ==
    \E k \in 1..Len(claim_list) :
        /\ Trimmed(claim_list[k]) = Trimmed(claim)
        /\ Trimmed(claim) = "" =>
              GetKey(claim_list[k], "id", PyNone) = GetKey(claim, "id", PyStr(ClaimId(k)))

\* C18: a chunk whose extraction fails contributes no claim, the claims of the
\* other chunks are in the returned ClaimSet, and no run is aborted by the
\* failure of a chunk (a run is aborted only when a worker thread cannot be
\* started or no worker is allowed); while the chunks complete, nothing
\* collected so far is dropped.
C18_ChunkFailureIsolated ==
    /\ extraction.pc = "pool" =>
          Len(extraction.all_claims)
          = ClaimCount(extraction.answers,
                       {i \in 1..Len(extraction.answers) : extraction.status[i] = "collected"})
    /\ \A n \in 1..Len(returns) :
          LET r == returns[n]
              all == 1..Len(r.answers)
          IN /\ r.path = "fresh" =>
                   /\ Len(r.collected) = ClaimCount(r.answers, all \ FailedChunks(r.answers))
                   /\ \A i \in all \ FailedChunks(r.answers) :
                         \A k \in 1..Len(r.answers[i].claims) :
                            Appears(r.answers[i].claims[k], r.claims)
             /\ r.path = "aborted" => r.start_failed \/ env.max_workers = 0

\* a run of the worker pool in which a chunk failed returned the claims of
\* another chunk
C18_Witness ==
    \E n \in 1..Len(returns) :
        /\ returns[n].path = "fresh"
        /\ returns[n].pool
        /\ FailedChunks(returns[n].answers) # {}
        /\ returns[n].claims # <<>>

\* C19: when every chunk fails, extract_claims returns an empty ClaimSet
\* together with a typed extraction-error record.
C19_AllChunksFailedReportsError ==
    \A n \in 1..Len(returns) :
        (/\ returns[n].path = "fresh"
         /\ FailedChunks(returns[n].answers) = 1..Len(returns[n].answers))
            => /\ returns[n].claims = <<>>
               /\ returns[n].error_record # "none"

\* C20: a card text shorter than min_chunk_size * 12 characters is split into
\* exactly one chunk, and extract_claims makes a single extraction call for it
\* without starting a worker pool.
C20_SmallCardOneChunk ==
    /\ extraction.pc = "pool" =>
          TextLen(extraction.card) >= min_chunk_size * TargetChunks
    /\ \A n \in 1..Len(returns) :
          (/\ returns[n].path \notin CacheHits
           /\ TextLen(returns[n].card) < min_chunk_size * TargetChunks)
              => /\ returns[n].chunks = 1
                 /\ ~returns[n].pool
                 /\ returns[n].llm_calls = 1

\* C21: extract_claims on an empty card text, no cache answering, returns an
\* empty ClaimSet without raising and makes at most one extraction call.
C21_EmptyCardGivesEmptySet ==
    \A n \in 1..Len(returns) :
        (TextLen(returns[n].card) = 0 /\ returns[n].path \notin CacheHits)
            => /\ GaveClaimSet(returns[n])
               /\ returns[n].claims = <<>>
               /\ returns[n].llm_calls <= 1

\* ======================================================= claims on _call_openai_api
\* the requests one _call_openai_api call hands to client.chat.completions.create
\* (lines 155-166 and 178-188), each by whether its params hold response_format,
\* against a backend that answers the first request with o1
openai_requests(c, use_json_format, o1) ==
    LET skip == IF use_json_format THEN should_skip_response_format(c) ELSE FALSE
    IN IF use_json_format /\ ~skip
       THEN IF o1.ok \/ ~IsResponseFormatError(o1.err)
            THEN <<[response_format |-> TRUE]>>
            ELSE <<[response_format |-> TRUE], [response_format |-> FALSE]>>
       ELSE <<[response_format |-> FALSE]>>

\* C22: a JSON-mode call of _call_openai_api sends one request without
\* response_format when the backend+model pair is on the no-JSON-mode list;
\* otherwise its first request carries response_format, and a second one
\* without it is sent only if the first failed with the unsupported-parameter
\* error of that feature; any other failure is raised without a retry, and no
\* call sends more than two requests.
C22_RetryOnlyOnUnsupportedJsonMode ==
    (ret.done /\ call.cfg.provider \in {"openai", "openrouter"}) =>
        LET sent == openai_requests(call.cfg, TRUE, call.o1)
        IN /\ Len(sent) = CallReply.n
           /\ Len(sent) <= 2
           /\ should_skip_response_format(call.cfg) => sent = <<[response_format |-> FALSE]>>
           /\ ~should_skip_response_format(call.cfg) =>
                 /\ sent[1].response_format
                 /\ Len(sent) = 2 =>
                       /\ ~sent[2].response_format
                       /\ ~call.o1.ok /\ call.o1.err = "UNSUPPORTED_PARAM"
                 /\ (~call.o1.ok /\ call.o1.err # "UNSUPPORTED_PARAM") =>
                       /\ Len(sent) = 1
                       /\ ~CallReply.ok /\ CallReply.err = call.o1.err

\* ======================================================= the streaming endpoints
\* One request on /verify, /verify/stream or /verify/codeact/stream
\* (api_server.py): the handler, which reads the request's headers and body
\* and sets the API key in os.environ, and, on the streaming endpoints, the
\* generator generate() of the StreamingResponse it returns. /verify answers
\* with one VerifyResponse and no stream.
\*
\* generate() constructs CardCheckAgent with the keyword llm_model (lines
\* 200-206, 378-384). The class the module imports (line 28) is the one of
\* agent_main.py, whose __init__ (lines 28-34) has no such parameter: the call
\* raises TypeError before the check of the repository (lines 209-211), before
\* the verification thread is created (lines 269-270) and before the loop over
\* progress_queue (lines 274-315). What is left of generate() is lines 191-206
\* and the handler of line 317; of /verify, lines 116-144 and the handler of
\* lines 159-160.
None == "None"

\* bool(x) of a header value or a field of the request
Truthy23(x) == x # None /\ x # ""

\* a or b
Or(a, b) == IF Truthy23(a) THEN a ELSE b

\* X-API-Key, X-LLM-Provider and X-LLM-Model of a request: absent, empty or set
ApiKeys == {None, "", "sk-1"}
ProviderHeaders == {None, "anthropic", "azure"}
ModelHeaders == {None, "claude-3"}

\* llm_provider, llm_model of a VerifyRequest (lines 69-70)
RequestProviders == {"openai", "anthropic", "openrouter"}
RequestModels == {None, "gpt-4o"}

\* the variables of os.environ the handlers write
NoEnviron == [OPENAI_API_KEY |-> None, ANTHROPIC_API_KEY |-> None, OPENROUTER_API_KEY |-> None]

\* lines 181-187, 357-364: the key goes to the variable of the provider, if
\* it is one of the three
SetApiKey(environ, llm_provider, api_key) ==
    IF ~Truthy23(api_key) THEN environ
    ELSE IF llm_provider = "openai" THEN [environ EXCEPT !.OPENAI_API_KEY = api_key]
    ELSE IF llm_provider = "anthropic" THEN [environ EXCEPT !.ANTHROPIC_API_KEY = api_key]
    ELSE IF llm_provider = "openrouter" THEN [environ EXCEPT !.OPENROUTER_API_KEY = api_key]
    ELSE environ

Event(type, message, report) == [type |-> type, message |-> message, report |-> report]

Error(message) == Event("error", message, None)

\* VerifyResponse (lines 72-76)
VerifyResponse(success, report, error) == [success |-> success, report |-> report, error |-> error]

\* str(e) of the TypeError that CardCheckAgent(..., llm_model=llm_model) raises
UnexpectedKeyword == "CardCheckAgent.__init__() got an unexpected keyword argument 'llm_model'"

StreamInit ==
    /\ RunIdle /\ CallIdle /\ ExecIdle /\ CacheIdle /\ StoreIdle /\ ExtIdle
    /\ applied = NoApplied
    /\ \E endpoint \in {"verify", "verify_stream", "verify_codeact_stream"}, repo \in BOOLEAN,
          api_key \in ApiKeys, provider_header \in ProviderHeaders,
          model_header \in ModelHeaders, provider \in RequestProviders, model \in RequestModels :
          sse = [endpoint |-> endpoint,
                 headers |-> [api_key |-> api_key, llm_provider |-> provider_header,
                              llm_model |-> model_header],
                 request |-> [repo |-> repo, llm_provider |-> provider, llm_model |-> model],
                 llm_provider |-> None, llm_model |-> None, environ |-> NoEnviron,
                 warned |-> FALSE, gen |-> "request", out |-> <<>>, response |-> None]

StreamFrame == UNCHANGED <<runVars, callVars, execVars, cacheVars, storeVars, extVars, applied>>

\* lines 116-160: the handler of /verify. It sets the key as the streaming
\* handlers do (lines 118-129); the construction of the agent (lines 137-143)
\* raises TypeError, the temporary directory is removed and lines 159-160
\* return the response
verify ==
    /\ StreamFrame
    /\ sse.gen = "request" /\ sse.endpoint = "verify"
    /\ LET llm_provider == Or(sse.headers.llm_provider, sse.request.llm_provider)
           llm_model == Or(sse.headers.llm_model, sse.request.llm_model)
       IN sse' = [sse EXCEPT !.llm_provider = llm_provider, !.llm_model = llm_model,
                             !.environ = SetApiKey(@, llm_provider, sse.headers.api_key),
                             !.response = VerifyResponse(FALSE, None, UnexpectedKeyword),
                             !.gen = "responded"]

\* lines 176-187 and 320-328: the handler of /verify/stream up to its return
verify_stream ==
    /\ StreamFrame
    /\ sse.gen = "request" /\ sse.endpoint = "verify_stream"
    /\ LET llm_provider == Or(sse.headers.llm_provider, sse.request.llm_provider)
           llm_model == Or(sse.headers.llm_model, sse.request.llm_model)
       IN sse' = [sse EXCEPT !.llm_provider = llm_provider, !.llm_model = llm_model,
                             !.environ = SetApiKey(@, llm_provider, sse.headers.api_key),
                             !.gen = "start"]

\* lines 344-366 and 466-474: the handler of /verify/codeact/stream, which
\* also logs a warning when the request brought no key
verify_codeact_stream ==
    /\ StreamFrame
    /\ sse.gen = "request" /\ sse.endpoint = "verify_codeact_stream"
    /\ LET llm_provider == Or(sse.headers.llm_provider, sse.request.llm_provider)
           llm_model == Or(sse.headers.llm_model, sse.request.llm_model)
       IN sse' = [sse EXCEPT !.llm_provider = llm_provider, !.llm_model = llm_model,
                             !.environ = SetApiKey(@, llm_provider, sse.headers.api_key),
                             !.warned = ~Truthy23(sse.headers.api_key),
                             !.gen = "start"]

\* generate() with the construction of the agent outside the try of line 191:
\* the TypeError leaves generate() and the stream ends without an event
StartStreamOutsideTry ==
    /\ StreamFrame
    /\ sse.gen = "start"
    /\ sse' = [sse EXCEPT !.gen = "ended"]

\* generate(): the card is written to a temporary directory (lines 193-197,
\* 372-375), the construction of the agent raises TypeError (lines 200-206,
\* 378-384), the directory is removed and the handler of line 317 (463)
\* yields the one event of the stream
StartStream ==
    /\ StreamFrame
    /\ sse.gen = "start"
    /\ sse' = [sse EXCEPT
                 !.gen = "ended",
                 !.out = <<Error(UnexpectedKeyword)>>]

StreamNext ==
    \/ verify
    \/ verify_stream
    \/ verify_codeact_stream
    \/ StartStream

SpecStream == StreamInit /\ [][StreamNext]_vars

\* ======================================================= claims on the streaming endpoints
IsTerminal(e) == e.type \in {"complete", "error"}

MaxVerdicts == 5
MaxMetrics == 2

RiskLevels == {"LOW", "MEDIUM", "HIGH", "CRITICAL"}

\* replies to the risk-assessment prompt: no JSON, a JSON array, or a JSON
\* object whose "overall_risk" is elem ("absent": the object has no such key)
RiskBodies ==
    {NoBody, ArrayBody(0, "none")}
    \cup {[t |-> "object", n |-> 1, elem |-> r] : r \in RiskLevels \cup {"absent"}}

RiskOutcomes ==
    {Reply([fence |-> f, body |-> b]) : f \in BOOLEAN, b \in RiskBodies}
    \cup {Failure(e) : e \in ErrKinds}

\* sum(1 for r in verification_results if r.get("verified", False)), line 1076
RECURSIVE verified_count(_)
verified_count(verification_results) ==
    IF verification_results = <<>> THEN 0
    ELSE (IF Head(verification_results).verified THEN 1 ELSE 0)
         + verified_count(Tail(verification_results))

\* line 1080: "HIGH" if verified_count < total_count * 0.5 else "MEDIUM" if
\* verified_count < total_count * 0.8 else "LOW"
FallbackRisk(verification_results) ==
    LET count == verified_count(verification_results)
        total_count == Len(verification_results)
    IN IF 10 * count < 5 * total_count THEN "HIGH"
       ELSE IF 10 * count < 8 * total_count THEN "MEDIUM"
       ELSE "LOW"

\* generate_risk_assessment_table(claims, verification_results) with a backend
\* that answers o1, then o2: json.loads of the reply (line 1065), or the
\* fallback of lines 1067-1096 when the call or json.loads raises
generate_risk_assessment_table(c, verification_results, o1, o2) ==
    LET r == call_llm(c, TRUE, o1, o2)
    IN IF r.ok /\ ~r.wire.fence /\ r.wire.body.t # "garbage"
       THEN [source |-> "llm",
             overall_risk |-> IF r.wire.body.t = "object" THEN r.wire.body.elem ELSE "absent"]
       ELSE [source |-> "fallback", overall_risk |-> FallbackRisk(verification_results)]

\* a score, in sixths: 0, 0.5 and 1.0 are 0, 3 and 6
Sixths(num, den) == (6 * num) \div den

\* claims_spec: family maps the claimed model types to whether the claimed
\* family is the one the rule pack knows; splits, exclude_columns, bounds tell
\* whether the entry is there and not empty; metrics is the number of metrics
\* claimed
FamilyClaims ==
    UNION {[keys -> BOOLEAN] : keys \in {{}, {"pd"}, {"pd", "lgd"}, {"pd", "lgd", "ead"}}}

ClaimsSpecs ==
    {[family |-> f, splits |-> s, exclude_columns |-> x, bounds |-> b, metrics |-> m] :
        f \in FamilyClaims, s \in BOOLEAN, x \in BOOLEAN, b \in BOOLEAN, m \in 0..MaxMetrics}

\* evidence_table: per rule pack, the rule ids of its matches
AlgorithmRules == {"pd-logistic-used", "lgd-incidence-logistic", "lgd-magnitude-linear",
                   "ead-linear-on-ccf"}
EvidenceTables ==
    {[algorithms |-> a, splits |-> s, leakage |-> l, metrics |-> m, packaging |-> p] :
        a \in {{}, {"pd-logistic-used"}, {"pd-logistic-used", "lgd-incidence-logistic"},
               AlgorithmRules},
        s \in {{}, {"train-test-split"}},
        l \in {{}, {"leaky-column"}},
        m \in {{}, {"clip-rates-0-1"}},
        p \in SUBSET {"joblib-dump-model", "seed-set"}}

score_family_match(claims_spec, evidence_table) ==
    LET family_claims == claims_spec.family
        algorithms_evidence == evidence_table.algorithms
        has(k) == k \in DOMAIN family_claims
        one(b) == IF b THEN 1 ELSE 0
        n_claimed == one(has("pd")) + one(has("lgd")) + one(has("ead"))
        matches ==
            one(has("pd") /\ family_claims["pd"] /\ "pd-logistic-used" \in algorithms_evidence)
            + one(has("lgd") /\ family_claims["lgd"]
                  /\ "lgd-incidence-logistic" \in algorithms_evidence
                  /\ "lgd-magnitude-linear" \in algorithms_evidence)
            + one(has("ead") /\ family_claims["ead"] /\ "ead-linear-on-ccf" \in algorithms_evidence)
    IN IF DOMAIN family_claims = {} THEN Sixths(1, 2)
       ELSE IF n_claimed > 0 THEN Sixths(matches, n_claimed) ELSE Sixths(1, 2)

score_splits_match(claims_spec, evidence_table) ==
    IF ~claims_spec.splits THEN Sixths(1, 2)
    ELSE IF evidence_table.splits # {} THEN Sixths(1, 1) ELSE Sixths(0, 1)

score_leakage_match(claims_spec, evidence_table) ==
    IF ~claims_spec.exclude_columns THEN Sixths(1, 2)
    ELSE IF evidence_table.leakage # {} THEN Sixths(0, 1) ELSE Sixths(1, 1)

score_bounds_match(claims_spec, evidence_table) ==
    IF ~claims_spec.bounds THEN Sixths(1, 2)
    ELSE IF "clip-rates-0-1" \in evidence_table.metrics THEN Sixths(1, 1) ELSE Sixths(0, 1)

score_packaging_match(evidence_table) ==
    Sixths((IF "joblib-dump-model" \in evidence_table.packaging THEN 1 ELSE 0)
           + (IF "seed-set" \in evidence_table.packaging THEN 1 ELSE 0), 2)

\* metrics_diffs is told by the number of its entries
score_metrics_match(claims_spec, metrics_diffs) ==
    LET total_metrics == claims_spec.metrics
    IN IF metrics_diffs = 0 THEN Sixths(1, 1)
       ELSE IF total_metrics = 0 THEN Sixths(1, 2)
       ELSE Sixths(Max(0, total_metrics - metrics_diffs), total_metrics)

Dimensions == {"family", "splits", "leakage", "bounds", "packaging", "metrics"}

\* the sub-score _calculate_consistency_score takes for a dimension (lines 464-486)
SubScore(dimension, claims_spec, evidence_table, metrics_diffs) ==
    CASE dimension = "family" -> score_family_match(claims_spec, evidence_table)
      [] dimension = "splits" -> score_splits_match(claims_spec, evidence_table)
      [] dimension = "leakage" -> score_leakage_match(claims_spec, evidence_table)
      [] dimension = "bounds" -> score_bounds_match(claims_spec, evidence_table)
      [] dimension = "packaging" -> score_packaging_match(evidence_table)
      [] OTHER -> score_metrics_match(claims_spec, metrics_diffs)

ScoreInit ==
    /\ RunIdle /\ CallIdle /\ ExecIdle /\ CacheIdle /\ StoreIdle /\ ExtIdle
    /\ sse = NoStream
    /\ \/ \E c \in Configs, n \in 0..MaxVerdicts, o1 \in RiskOutcomes :
          \E verdicts \in [1..n -> [verified : BOOLEAN]],
             o2 \in SecondOutcomes(c, o1, RiskOutcomes) :
             applied = [fn |-> "generate_risk_assessment_table", cfg |-> c,
                        verification_results |-> verdicts, o1 |-> o1, o2 |-> o2,
                        done |-> FALSE]
       \/ \E claims_spec \in ClaimsSpecs, table \in EvidenceTables :
          \E diffs \in 0..claims_spec.metrics :
             \* _compare_metrics reports claimed metrics only (lines 368-402)
             applied = [fn |-> "calculate_consistency_score", claims_spec |-> claims_spec,
                        evidence_table |-> table, metrics_diffs |-> diffs, done |-> FALSE]

ScoreFrame == UNCHANGED <<runVars, callVars, execVars, cacheVars, storeVars, extVars, sse>>

AssessRisk ==
    /\ ScoreFrame
    /\ applied.fn = "generate_risk_assessment_table" /\ ~applied.done
    /\ applied' = [fn |-> applied.fn, cfg |-> applied.cfg,
                   verification_results |-> applied.verification_results,
                   o1 |-> applied.o1, o2 |-> applied.o2, done |-> TRUE,
                   result |-> generate_risk_assessment_table(
                                  applied.cfg, applied.verification_results,
                                  applied.o1, applied.o2)]

\* the six sub-scores of _calculate_consistency_score (lines 462-486)
CalculateScores ==
    /\ ScoreFrame
    /\ applied.fn = "calculate_consistency_score" /\ ~applied.done
    /\ applied' = [fn |-> applied.fn, claims_spec |-> applied.claims_spec,
                   evidence_table |-> applied.evidence_table,
                   metrics_diffs |-> applied.metrics_diffs, done |-> TRUE,
                   result |-> [d \in Dimensions |->
                                  SubScore(d, applied.claims_spec, applied.evidence_table,
                                           applied.metrics_diffs)]]

ScoreNext == AssessRisk \/ CalculateScores

SpecScore == ScoreInit /\ [][ScoreNext]_vars

\* ======================================================= claims on scoring
\* C25: for verdicts with verified fraction f the overall_risk returned by
\* generate_risk_assessment_table is HIGH if f < 0.5, MEDIUM if 0.5 <= f < 0.8
\* and LOW otherwise, unless it is CRITICAL.
C25_RiskBandFromVerifiedFraction ==
    (/\ applied.fn = "generate_risk_assessment_table" /\ applied.done
     /\ Len(applied.verification_results) > 0) =>
        LET count == verified_count(applied.verification_results)
            total_count == Len(applied.verification_results)
            band == IF 2 * count < total_count THEN "HIGH"
                    ELSE IF 5 * count < 4 * total_count THEN "MEDIUM"
                    ELSE "LOW"
        IN applied.result.overall_risk \in {band, "CRITICAL"}

\* the card claims nothing in the dimension; the ClaimsSpec of card_parser.py
\* has no entry for artifacts and seeds, so a card is taken to claim nothing
\* about packaging when it claims nothing at all
NoClaim(dimension, claims_spec) ==
    LET family == DOMAIN claims_spec.family = {}
        splits == ~claims_spec.splits
        leakage == ~claims_spec.exclude_columns
        bounds == ~claims_spec.bounds
        metrics == claims_spec.metrics = 0
    IN CASE dimension = "family" -> family
         [] dimension = "splits" -> splits
         [] dimension = "leakage" -> leakage
         [] dimension = "bounds" -> bounds
         [] dimension = "metrics" -> metrics
         [] OTHER -> family /\ splits /\ leakage /\ bounds /\ metrics

\* C26: each of the six sub-scores is 0.5 whenever the card makes no claim in
\* its dimension, whatever the evidence.
C26_NoClaimScoresHalf ==
    (applied.fn = "calculate_consistency_score" /\ applied.done) =>
        \A d \in Dimensions :
            NoClaim(d, applied.claims_spec) => applied.result[d] = Sixths(1, 2)

\* ======================================================= _smart_split_text, step by step
\* _smart_split_text(text, 12) on texts of up to MaxParas paragraphs. A chunk is
\* the span [from, to) of the text it was cut from. The loop of lines 503-521
\* is taken one iteration at a time, MaxTurns iterations at most.
MaxParas == 24
MaxTurns == 16

ParaLens == {100, 1000, 1100, 2000, 4000}

SplitTexts == {Paras(n, k) : n \in 1..MaxParas, k \in ParaLens} \cup {Paras(1, 0), Blank(3)}

Span(from, to) == [from |-> from, to |-> to]

\* the character at offset x is no white space
IsContent(text, x) == text.kind = "paras" /\ x % (text.k + 2) < text.k

\* text.rfind('\n\n', lo, hi): the offset of the last break that lies in
\* text[lo:hi] as a whole, -1 when there is none
rfind_break(text, lo, hi) ==
    LET found == {b \in Breaks(text.n, text.k) : lo <= b /\ b + 2 <= hi}
    IN IF found = {} THEN -1 ELSE CHOOSE b \in found : \A o \in found : o <= b

\* the spans of the chunks of lines 487-545 when the paragraphs are grouped:
\* group g starts where the groups before it end, a group cut in two by
\* SplitLarger gives its head and its tail, and the first 15 chunks are kept
RECURSIVE GroupSpans(_, _, _, _, _)
GroupSpans(groups, k, text_len, halve, from) ==
    IF groups = <<>> THEN <<>>
    ELSE LET c == GroupLen(Head(groups), k)
             parts == IF halve THEN SplitLarger(Head(groups), k, text_len) ELSE <<c>>
             here == IF Len(parts) = 1
                     THEN <<Span(from, from + c)>>
                     ELSE <<Span(from, from + parts[1]), Span(from + c - parts[2], from + c)>>
         IN here \o GroupSpans(Tail(groups), k, text_len, halve, from + c + 2)

split_spans(text, target_chunks) ==
    LET text_len == TextLen(text)
        small == text_len < min_chunk_size * target_chunks
        target == IF small THEN Max(1, text_len \div min_chunk_size) ELSE target_chunks
        groups == ParagraphChunks(text, target)
        spans == GroupSpans(groups, text.k, text_len, Len(groups) < 10, 0)
    IN IF Len(smart_split_text(text, target_chunks).chunks) = 1 /\ Len(spans) # 1
       THEN <<Span(0, text_len)>>
       ELSE SubSeq(spans, 1, Min(15, Len(spans)))

SplitInit ==
    /\ RunIdle /\ CallIdle /\ ExecIdle /\ CacheIdle /\ StoreIdle /\ ExtIdle
    /\ sse = NoStream
    /\ \E text \in SplitTexts :
          applied = [fn |-> "smart_split_text", text |-> text, pc |-> "called",
                     chunk_size |-> 0, current_pos |-> 0, last_pos |-> 0, turns |-> 0,
                     chunks |-> <<>>, n_chunks |-> 0]

\* lines 444-497 and 523-545: the text comes back whole or is cut at its
\* paragraphs; or, with fewer paragraphs than target_chunks, the loop of
\* strategy 3 is entered (lines 499-501)
SplitText ==
    /\ ScoreFrame
    /\ applied.fn = "smart_split_text" /\ applied.pc = "called"
    /\ LET text_len == TextLen(applied.text)
           small == text_len < min_chunk_size * TargetChunks
           target == IF small THEN Max(1, text_len \div min_chunk_size) ELSE TargetChunks
       IN IF smart_split_text(applied.text, TargetChunks).diverges
          THEN applied' = [applied EXCEPT !.pc = "loop", !.chunk_size = text_len \div target]
          ELSE LET spans == split_spans(applied.text, TargetChunks)
               IN applied' = [applied EXCEPT !.pc = "returned", !.chunks = spans,
                                             !.n_chunks = Len(spans)]

\* one iteration of the while loop, lines 503-521, and the test of its
\* condition: chunks holds the chunk of this iteration
ScanChunk ==
    /\ ScoreFrame
    /\ applied.fn = "smart_split_text" /\ applied.pc = "loop"
    /\ applied.turns < MaxTurns
    /\ LET text == applied.text
           text_len == TextLen(text)
           chunk_size == applied.chunk_size
           current_pos == applied.current_pos
           reach == Min(text_len, current_pos + chunk_size)
           search_start == reach - (chunk_size + 4) \div 5
           para_break == IF reach < text_len THEN rfind_break(text, search_start, reach) ELSE -1
           end_pos == IF para_break # -1 THEN para_break + 2 ELSE reach
           content == {x \in current_pos..(end_pos - 1) : IsContent(text, x)}
           next_pos == IF end_pos - 200 <= 0 THEN end_pos ELSE end_pos - 200
       IN applied' = [applied EXCEPT
                         !.pc = IF next_pos < text_len THEN "loop" ELSE "after_loop",
                         !.current_pos = next_pos,
                         !.last_pos = current_pos,
                         !.turns = @ + 1,
                         !.chunks = IF content = {} THEN <<>> ELSE <<Span(current_pos, end_pos)>>,
                         !.n_chunks = IF content = {} THEN @ ELSE @ + 1]

SplitNext == SplitText \/ ScanChunk

SpecSplit == SplitInit /\ [][SplitNext]_vars

\* ======================================================= claims on _smart_split_text
\* C27: _smart_split_text terminates for every text; when the fixed-character
\* strategy runs, the scan position strictly advances on every iteration until
\* the end of the text has been consumed.
C27_ScanPositionAdvances ==
    (applied.fn = "smart_split_text" /\ applied.turns > 0) =>
        applied.current_pos > applied.last_pos


\* every character of the text that is no white space lies in one of the chunks:
\* a stretch that no chunk holds begins where a paragraph begins or a chunk ends
Contained(text, chunks) ==
    LET begins == {p * (text.k + 2) : p \in 0..(text.n - 1)} \cup {chunks[i].to : i \in 1..Len(chunks)}
    IN \A x \in begins :
           (x < TextLen(text) /\ IsContent(text, x))
               => \E i \in 1..Len(chunks) : chunks[i].from <= x /\ x < chunks[i].to

\* C30: every part of the card text is contained in at least one chunk that
\* _smart_split_text returns, also when the cap of 15 chunks is applied.
C30_NoContentDropped ==
    (applied.fn = "smart_split_text" /\ applied.pc = "returned" /\ applied.text.kind = "paras")
        => Contained(applied.text, applied.chunks)


\* the claims of the chunks' answers, first chunk first
RECURSIVE InChunkOrder(_)
InChunkOrder(answers) ==
    IF answers = <<>> THEN <<>>
    ELSE ChunkClaims(Head(answers)) \o InChunkOrder(Tail(answers))

\* C28: the ClaimSet extract_claims returns (order, surviving duplicates, ids
\* given) is the same for every completion order of the chunk workers: the
\* per-chunk claim lists are merged in chunk order.
C28_MergedInChunkOrder ==
    \A n \in 1..Len(returns) :
        (returns[n].path = "fresh" /\ returns[n].pool)
            => returns[n].claims = Enrich(Deduplicate(InChunkOrder(returns[n].answers), 1, <<>>))


\* a fresh extraction every chunk of which failed
AllChunksFailed(r) ==
    /\ r.path = "fresh"
    /\ r.answers # <<>>
    /\ \A i \in 1..Len(r.answers) : r.answers[i].kind # "claims"

\* C29: an extract_claims run in which every chunk extraction failed writes no
\* cache entry for the card, neither XML nor JSON, so the next extract_claims
\* on the card extracts again instead of returning the empty result as a hit.
C29_FailedRunWritesNoCache ==
    \A i \in 1..Len(returns) :
        AllChunksFailed(returns[i]) =>
            /\ (i = Len(returns) => /\ ~caches[returns[i].card].xml.present
                                    /\ ~caches[returns[i].card].json.present)
            /\ \A j \in (i + 1)..Len(returns) :
                  returns[j].card = returns[i].card => returns[j].path \notin {"json", "xml"}

====
